---- MODULE Spec2Model ----
(***************************************************************************)
(* The dialogue state machine of backend/main.py (the /chat handler), its  *)
(* field extractors and its classifiers.  A text is a sequence of          *)
(* one-character strings, so that substring tests and the regular          *)
(* expressions of the source are computed character by character.          *)
(***************************************************************************)
EXTENDS Integers, Sequences, FiniteSets, TLC

----------------------------------------------------------------------------
(* Characters and basic text operations (Python str methods and re classes) *)

Digits == {"0", "1", "2", "3", "4", "5", "6", "7", "8", "9"}

AsciiLower ==
  {"a", "b", "c", "d", "e", "f", "g", "h", "i", "j", "k", "l", "m", "n", "o",
   "p", "q", "r", "s", "t", "u", "v", "w", "x", "y", "z"}

LowerLetters == AsciiLower \cup {"é", "è", "ê", "à", "â", "ô", "û", "ç", "ù", "ë", "ï", "ü"}

UpperLetters ==
  {"A", "B", "C", "D", "E", "F", "G", "H", "I", "J", "K", "L", "M", "N", "O",
   "P", "Q", "R", "S", "T", "U", "V", "W", "X", "Y", "Z", "É"}

AsciiUpper == UpperLetters \ {"É"}

\* The letters of the Arabic block U+0600..U+06FF that the texts below use, each
\* written as the name of its code point.
ArabicLetters ==
  {"ar_hamza", "ar_alef_with_hamza_above", "ar_alef_with_hamza_below",
   "ar_yeh_with_hamza_above", "ar_alef", "ar_beh", "ar_teh_marbuta", "ar_teh", "ar_jeem",
   "ar_hah", "ar_khah", "ar_dal", "ar_reh", "ar_zain", "ar_seen", "ar_sheen", "ar_sad",
   "ar_dad", "ar_tah", "ar_ain", "ar_feh", "ar_qaf", "ar_kaf", "ar_lam", "ar_meem",
   "ar_noon", "ar_heh", "ar_waw", "ar_yeh"}

LowerOf ==
  [c \in UpperLetters |->
     CASE c = "A" -> "a" [] c = "B" -> "b" [] c = "C" -> "c" [] c = "D" -> "d"
       [] c = "E" -> "e" [] c = "F" -> "f" [] c = "G" -> "g" [] c = "H" -> "h"
       [] c = "I" -> "i" [] c = "J" -> "j" [] c = "K" -> "k" [] c = "L" -> "l"
       [] c = "M" -> "m" [] c = "N" -> "n" [] c = "O" -> "o" [] c = "P" -> "p"
       [] c = "Q" -> "q" [] c = "R" -> "r" [] c = "S" -> "s" [] c = "T" -> "t"
       [] c = "U" -> "u" [] c = "V" -> "v" [] c = "W" -> "w" [] c = "X" -> "x"
       [] c = "Y" -> "y" [] c = "Z" -> "z" [] c = "É" -> "é"]

\* \s of re and the characters str.strip() removes
IsSpace(c) == c = " "

\* \d of re
IsDigit(c) == c \in Digits

\* \w of re: letters of any script, digits and the underscore
IsWord(c) == c \in Digits \cup LowerLetters \cup UpperLetters \cup ArabicLetters \cup {"_"}

\* str.lower()
lower(t) == [i \in 1..Len(t) |-> IF t[i] \in UpperLetters THEN LowerOf[t[i]] ELSE t[i]]

RECURSIVE lstrip(_)
lstrip(t) == IF t # <<>> /\ IsSpace(Head(t)) THEN lstrip(Tail(t)) ELSE t

RECURSIVE rstrip(_)
rstrip(t) ==
  IF t # <<>> /\ IsSpace(t[Len(t)]) THEN rstrip(SubSeq(t, 1, Len(t) - 1)) ELSE t

\* str.strip()
strip(t) == rstrip(lstrip(t))

\* p in t, for texts
Contains(t, p) ==
  \E i \in 1..(Len(t) - Len(p) + 1) : SubSeq(t, i, i + Len(p) - 1) = p

\* any(x in t for x in words)
ContainsAny(t, words) == \E w \in words : Contains(t, w)

\* str.split(sep) for a one-character separator: empty pieces are kept
RECURSIVE SplitOn(_, _, _)
SplitOn(t, sep, cur) ==
  IF t = <<>> THEN <<cur>>
  ELSE IF Head(t) = sep THEN <<cur>> \o SplitOn(Tail(t), sep, <<>>)
  ELSE SplitOn(Tail(t), sep, Append(cur, Head(t)))

\* [p for p in re.split(r"\s+", t.strip()) if p]: the whitespace-separated tokens
RECURSIVE Tokens(_, _)
Tokens(t, cur) ==
  IF t = <<>> THEN (IF cur = <<>> THEN <<>> ELSE <<cur>>)
  ELSE IF IsSpace(Head(t))
       THEN (IF cur = <<>> THEN <<>> ELSE <<cur>>) \o Tokens(Tail(t), <<>>)
       ELSE Tokens(Tail(t), Append(cur, Head(t)))

\* the sequence s without its empty elements
RECURSIVE NonEmpty(_)
NonEmpty(s) ==
  IF s = <<>> THEN <<>>
  ELSE IF Head(s) = <<>> THEN NonEmpty(Tail(s))
  ELSE <<Head(s)>> \o NonEmpty(Tail(s))

\* len(" ".join(parts))
RECURSIVE JoinedLen(_)
JoinedLen(parts) ==
  IF parts = <<>> THEN 0
  ELSE IF Len(parts) = 1 THEN Len(parts[1])
  ELSE Len(parts[1]) + 1 + JoinedLen(Tail(parts))

\* a position of t where \b of re matches: between a word and a non-word character
Boundary(t, i) ==
  LET before == i > 1 /\ i - 1 <= Len(t) /\ IsWord(t[i - 1])
      after == i >= 1 /\ i <= Len(t) /\ IsWord(t[i])
  IN before # after

AllDigits(t, i, n) ==
  /\ i >= 1
  /\ i + n - 1 <= Len(t)
  /\ \A k \in i..(i + n - 1) : IsDigit(t[k])

----------------------------------------------------------------------------
(* Field extractors                                                         *)

\* the repetition counts of \d{1,2}/\d{1,2}/\d{2,4}, in the order the greedy
\* matcher tries them
DateShapes ==
  << <<2, 2, 4>>, <<2, 2, 3>>, <<2, 2, 2>>, <<2, 1, 4>>, <<2, 1, 3>>, <<2, 1, 2>>,
     <<1, 2, 4>>, <<1, 2, 3>>, <<1, 2, 2>>, <<1, 1, 4>>, <<1, 1, 3>>, <<1, 1, 2>> >>

DateShapeFits(t, i, sh) ==
  LET s1 == i + sh[1]
      m == s1 + 1
      s2 == m + sh[2]
      y == s2 + 1
      e == y + sh[3]
  IN /\ Boundary(t, i)
     /\ AllDigits(t, i, sh[1])
     /\ s1 <= Len(t) /\ t[s1] = "/"
     /\ AllDigits(t, m, sh[2])
     /\ s2 <= Len(t) /\ t[s2] = "/"
     /\ AllDigits(t, y, sh[3])
     /\ Boundary(t, e)

\* length of the match of \b\d{1,2}/\d{1,2}/\d{2,4}\b starting at i, 0 if none
DateLenAt(t, i) ==
  LET fits == {k \in 1..Len(DateShapes) : DateShapeFits(t, i, DateShapes[k])}
  IN IF fits = {} THEN 0
     ELSE LET k == CHOOSE k \in fits : \A j \in fits : k <= j
              sh == DateShapes[k]
          IN sh[1] + sh[2] + sh[3] + 2

RECURSIVE FindDatesFrom(_, _)
FindDatesFrom(t, i) ==
  IF i > Len(t) THEN <<>>
  ELSE LET n == DateLenAt(t, i)
       IN IF n = 0 THEN FindDatesFrom(t, i + 1)
          ELSE <<SubSeq(t, i, i + n - 1)>> \o FindDatesFrom(t, i + n)

\* re.findall(r"\b\d{1,2}/\d{1,2}/\d{2,4}\b", t)
_parse_dates(t) == FindDatesFrom(t, 1)

PostalLen == 5

\* re.search(r"\b\d{5}\b", t): the first match, <<>> if none
_parse_postal(t) ==
  LET at == {i \in 1..Len(t) :
               /\ AllDigits(t, i, PostalLen)
               /\ Boundary(t, i)
               /\ Boundary(t, i + PostalLen)}
  IN IF at = {} THEN <<>>
     ELSE LET i == CHOOSE i \in at : \A j \in at : i <= j
          IN SubSeq(t, i, i + PostalLen - 1)

NameCeiling == 80

StripAll(s) == [i \in 1..Len(s) |-> strip(s[i])]

_parse_name(t) ==
  LET byComma == NonEmpty(StripAll(SplitOn(t, ",", <<>>)))
      parts == Tokens(strip(t), <<>>)
  IN IF Contains(t, <<",">>) /\ Len(byComma) >= 2
     THEN byComma[1] \o <<" ">> \o byComma[2]
     ELSE IF Len(parts) >= 2 /\ JoinedLen(parts) <= NameCeiling
          THEN parts[1] \o <<" ">> \o parts[2]
          ELSE <<>>

----------------------------------------------------------------------------
(* Classifiers                                                              *)

AffirmativeWords ==
  {<<"o", "u", "i">>, <<"y", "e", "s">>, <<"y">>, <<"o", "k">>, <<"d", "'", "a", "c", "c", "o", "r", "d">>, <<"c", "o", "n", "f", "i", "r", "m">>, <<"c", "o", "n", "f", "i", "r", "m", "é">>, <<"ar_noon", "ar_ain", "ar_meem">>}

AffirmativeExact == {<<"o">>, <<"y", "e", "p">>, <<"y", "e", "a", "h">>}

_is_affirmative(t) ==
  IF t = <<>> THEN FALSE
  ELSE LET tt == lower(strip(t))
       IN ContainsAny(tt, AffirmativeWords) \/ tt \in AffirmativeExact

NegativeWords == {<<"n", "o", "n">>, <<"n", "o">>, <<"n", "o", "t">>, <<"ar_lam", "ar_alef">>}

NegativeExact == {<<"n">>, <<"n", "o", "p", "e">>}

_is_negative(t) ==
  IF t = <<>> THEN FALSE
  ELSE LET tt == lower(strip(t))
       IN ContainsAny(tt, NegativeWords) \/ tt \in NegativeExact

ShorthandWords == {<<"t", "l">>, <<"t", ".", "l">>, <<"t", " ", "l">>}

FailureWords ==
  {<<"n", "e", " ", "f", "o", "n", "c", "t", "i", "o", "n", "n", "e">>, <<"n", "e", " ", "m", "a", "r", "c", "h", "e">>, <<"p", "a", "n", "n", "e">>, <<"c", "a", "s", "s", "é">>, <<"c", "a", "s", "s", "é", "e">>, <<"p", "a", "s", " ", "m", "a", "r", "c", "h", "e">>,
   <<"p", "a", "s", " ", "f", "o", "n", "c", "t", "i", "o", "n", "n", "e", "r">>, <<"n", "e", " ", "f", "o", "n", "c", "t", "i", "o", "n", "n", "e", " ", "p", "a", "s">>, <<"n", "e", " ", "m", "a", "r", "c", "h", "e", " ", "p", "a", "s">>}

RentWords ==
  {<<"l", "o", "c", "a", "t", "i", "o", "n">>, <<"l", "o", "u", "e", "r">>, <<"t", "i", "r", "e", "-", "l", "a", "i", "t">>, <<"t", "i", "r", "e", " ", "l", "a", "i", "t">>, <<"t", "i", "r", "e", "l", "a", "i", "t">>,
   <<"r", "e", "n", "t">>, <<"r", "e", "n", "t", "a", "l">>, <<"b", "r", "e", "a", "s", "t", " ", "p", "u", "m", "p">>, <<"i", " ", "w", "a", "n", "t", " ", "t", "o", " ", "r", "e", "n", "t">>, <<"i", " ", "w", "o", "u", "l", "d", " ", "l", "i", "k", "e", " ", "t", "o", " ", "r", "e", "n", "t">>,
   <<"ar_alef", "ar_seen", "ar_teh", "ar_yeh_with_hamza_above", "ar_jeem", "ar_alef", "ar_reh">>, <<"ar_teh", "ar_alef_with_hamza_above", "ar_jeem", "ar_yeh", "ar_reh">>, <<"ar_alef_with_hamza_above", "ar_reh", "ar_yeh", "ar_dal", " ", "ar_alef", "ar_seen", "ar_teh", "ar_yeh_with_hamza_above", "ar_jeem", "ar_alef", "ar_reh">>, <<"ar_alef_with_hamza_above", "ar_waw", "ar_dal", " ", "ar_alef", "ar_seen", "ar_teh", "ar_yeh_with_hamza_above", "ar_jeem", "ar_alef", "ar_reh">>, <<"ar_sheen", "ar_feh", "ar_alef", "ar_tah">>}

RenewWords ==
  {<<"r", "e", "n", "o", "u", "v", "e", "l">>, <<"p", "r", "o", "l", "o", "n", "g">>, <<"r", "e", "n", "o", "u", "v", "e", "l", "e", "r">>, <<"p", "r", "o", "l", "o", "n", "g", "a", "t", "i", "o", "n">>, <<"p", "r", "o", "l", "o", "n", "g", "e", "r">>,
   <<"r", "e", "n", "e", "w">>, <<"r", "e", "n", "e", "w", "a", "l">>, <<"e", "x", "t", "e", "n", "d">>, <<"e", "x", "t", "e", "n", "s", "i", "o", "n">>, <<"i", " ", "w", "a", "n", "t", " ", "t", "o", " ", "r", "e", "n", "e", "w">>,
   <<"i", " ", "w", "o", "u", "l", "d", " ", "l", "i", "k", "e", " ", "t", "o", " ", "r", "e", "n", "e", "w">>,
   <<"ar_teh", "ar_jeem", "ar_dal", "ar_yeh", "ar_dal">>, <<"ar_teh", "ar_meem", "ar_dal", "ar_yeh", "ar_dal">>, <<"ar_alef_with_hamza_above", "ar_reh", "ar_yeh", "ar_dal", " ", "ar_teh", "ar_jeem", "ar_dal", "ar_yeh", "ar_dal">>, <<"ar_alef_with_hamza_above", "ar_waw", "ar_dal", " ", "ar_teh", "ar_jeem", "ar_dal", "ar_yeh", "ar_dal">>}

ReturnWords ==
  {<<"r", "e", "t", "o", "u", "r">>, <<"r", "e", "n", "d", "r", "e">>, <<"r", "e", "n", "v", "o", "y", "e", "r">>, <<"r", "e", "s", "t", "i", "t", "u", "e", "r">>, <<"j", "e", " ", "v", "e", "u", "x", " ", "r", "e", "t", "o", "u", "r", "n", "e", "r">>,
   <<"j", "e", " ", "s", "o", "u", "h", "a", "i", "t", "e", " ", "r", "e", "t", "o", "u", "r", "n", "e", "r">>,
   <<"r", "e", "t", "u", "r", "n">>, <<"s", "e", "n", "d", " ", "b", "a", "c", "k">>, <<"r", "e", "t", "u", "r", "n", " ", "i", "t", "e", "m">>, <<"i", " ", "w", "a", "n", "t", " ", "t", "o", " ", "r", "e", "t", "u", "r", "n">>,
   <<"i", " ", "w", "o", "u", "l", "d", " ", "l", "i", "k", "e", " ", "t", "o", " ", "r", "e", "t", "u", "r", "n">>,
   <<"ar_alef_with_hamza_below", "ar_reh", "ar_jeem", "ar_alef", "ar_ain">>, <<"ar_alef_with_hamza_below", "ar_ain", "ar_alef", "ar_dal", "ar_teh_marbuta">>, <<"ar_reh", "ar_jeem", "ar_waw", "ar_ain">>, <<"ar_alef_with_hamza_above", "ar_reh", "ar_yeh", "ar_dal", " ", "ar_alef_with_hamza_below", "ar_reh", "ar_jeem", "ar_alef", "ar_ain">>, <<"ar_alef_with_hamza_above", "ar_waw", "ar_dal", " ", "ar_alef_with_hamza_below", "ar_reh", "ar_jeem", "ar_alef", "ar_ain">>}

\* _detect_intent with a slip: the return keywords are looked for before the
\* rent and renew keywords
_detect_intent_ReturnFirst(text) ==
  LET t == lower(text)
  IN IF ContainsAny(t, ShorthandWords) /\ ContainsAny(t, FailureWords) THEN "return"
     ELSE IF ContainsAny(t, ReturnWords) THEN "return"
     ELSE IF ContainsAny(t, RentWords) THEN "rent"
     ELSE IF ContainsAny(t, RenewWords) THEN "renew"
     ELSE "other"

_detect_intent(text) ==
  LET t == lower(text)
  IN IF ContainsAny(t, ShorthandWords) /\ ContainsAny(t, FailureWords) THEN "return"
     ELSE IF ContainsAny(t, RentWords) THEN "rent"
     ELSE IF ContainsAny(t, RenewWords) THEN "renew"
     ELSE IF ContainsAny(t, ReturnWords) THEN "return"
     ELSE "other"

FlowIntents == {"rent", "renew", "return"}

\* the language codes of the service; the first is the default
Langs == {"fr", "en", "ar"}

NoLang == "none"

normalize_lang(s) ==
  IF s = <<>> THEN NoLang
  ELSE LET t == lower(strip(s))
       IN IF t \in {<<"f", "r">>, <<"e", "n">>, <<"a", "r">>} THEN
            (IF t = <<"f", "r">> THEN "fr" ELSE IF t = <<"e", "n">> THEN "en" ELSE "ar")
          ELSE IF t \in {<<"f", "r", "e", "n", "c", "h">>, <<"f", "r", "a", "n", "ç", "a", "i", "s">>, <<"f", "r", "a", "n", "c", "a", "i", "s">>} THEN "fr"
          ELSE IF t \in {<<"e", "n", "g", "l", "i", "s", "h">>, <<"a", "n", "g", "l", "a", "i", "s">>} THEN "en"
          ELSE IF t \in {<<"a", "r", "a", "b", "i", "c">>, <<"a", "r", "a", "b", "e">>, <<"ar_ain", "ar_reh", "ar_beh", "ar_yeh">>, <<"ar_alef", "ar_lam", "ar_ain", "ar_reh", "ar_beh", "ar_yeh", "ar_teh_marbuta">>} THEN "ar"
          ELSE NoLang

\* '\u0600' <= ch <= '\u06FF'
IsArabic(c) == c \in ArabicLetters

FrenchAccents == {<<"é">>[1], <<"è">>[1], <<"ê">>[1], <<"à">>[1], <<"â">>[1], <<"ô">>[1], <<"û">>[1],
                  <<"ç">>[1], <<"ù">>[1], <<"ë">>[1], <<"ï">>[1], <<"ü">>[1], <<"lat_oe">>[1]}

\* sum(1 for w in words if w in t)
Hits(t, words) == Cardinality({w \in words : Contains(t, w)})

StrongEnglish ==
  {<<"i", " ", "w", "a", "n", "t">>, <<"i", " ", "n", "e", "e", "d">>, <<"i", " ", "w", "o", "u", "l", "d", " ", "l", "i", "k", "e">>, <<"c", "a", "n", " ", "y", "o", "u">>, <<"c", "o", "u", "l", "d", " ", "y", "o", "u">>,
   <<"b", "u", "y">>, <<"p", "u", "r", "c", "h", "a", "s", "e">>, <<"o", "r", "d", "e", "r">>, <<"r", "e", "t", "u", "r", "n">>, <<"r", "e", "n", "e", "w">>, <<"r", "e", "n", "t">>}

EnglishCues ==
  {<<"h", "e", "l", "l", "o">>, <<"h", "i">>, <<"h", "e", "y">>, <<"p", "l", "e", "a", "s", "e">>, <<"t", "h", "a", "n", "k", "s">>, <<"w", "h", "a", "t">>, <<"h", "o", "w">>, <<"m", "y">>,
   <<"t", "h", "e">>, <<"a", "n", "d">>}

MinCueHits == 2

\* _quick_lang with a slip: the English cues are looked for before the Arabic
\* letters
_quick_lang_CuesFirst(t) ==
  IF t = <<>> THEN NoLang
  ELSE LET s == lower(strip(t))
       IN IF ContainsAny(s, StrongEnglish) THEN "en"
          ELSE IF Hits(s, EnglishCues) >= MinCueHits THEN "en"
          ELSE IF \E i \in 1..Len(s) : IsArabic(s[i]) THEN "ar"
          ELSE NoLang

_quick_lang(t) ==
  IF t = <<>> THEN NoLang
  ELSE LET s == lower(strip(t))
       IN IF \E i \in 1..Len(s) : IsArabic(s[i]) THEN "ar"
          ELSE IF ContainsAny(s, StrongEnglish) THEN "en"
          ELSE IF Hits(s, EnglishCues) >= MinCueHits THEN "en"
          ELSE NoLang

FrenchKeywords ==
  {<<"b", "o", "n", "j", "o", "u", "r">>, <<"m", "e", "r", "c", "i">>, <<"s", "'", "i", "l">>, <<"s", "'", "i", "l", " ", "v", "o", "u", "s">>, <<"s", "v", "p">>, <<"q", "u", "e">>, <<"e", "s", "t">>, <<"l", "e">>,
   <<"l", "a">>, <<"l", "e", "s">>, <<"e", "t">>, <<"p", "o", "u", "r">>, <<"a", "v", "e", "c">>,
   <<"r", "e", "n", "o", "u", "v", "e", "l">>, <<"l", "o", "c", "a", "t", "i", "o", "n">>, <<"l", "o", "u", "e", "r">>, <<"o", "r", "d", "o", "n", "n", "a", "n", "c", "e">>, <<"m", "u", "t", "u", "e", "l", "l", "e">>}

EnglishKeywords ==
  {<<"h", "e", "l", "l", "o">>, <<"h", "i">>, <<"h", "e", "y">>, <<"t", "h", "a", "n", "k">>, <<"t", "h", "a", "n", "k", "s">>, <<"p", "l", "e", "a", "s", "e">>, <<"h", "o", "w">>, <<"w", "h", "a", "t">>,
   <<"i", " ", "w", "a", "n", "t">>, <<"i", " ", "n", "e", "e", "d">>, <<"i", " ", "w", "o", "u", "l", "d", " ", "l", "i", "k", "e">>, <<"w", "a", "n", "t">>, <<"n", "e", "e", "d">>,
   <<"b", "u", "y">>, <<"p", "u", "r", "c", "h", "a", "s", "e">>, <<"o", "r", "d", "e", "r">>, <<"p", "a", "y">>, <<"s", "h", "i", "p">>,
   <<"r", "e", "n", "e", "w">>, <<"r", "e", "n", "t", "a", "l">>, <<"r", "e", "n", "t">>, <<"p", "r", "e", "s", "c", "r", "i", "p", "t", "i", "o", "n">>, <<"i", "n", "s", "u", "r", "a", "n", "c", "e">>, <<"r", "e", "t", "u", "r", "n">>}

ArabicKeywords ==
  {<<"ar_meem", "ar_reh", "ar_hah", "ar_beh", "ar_alef">>, <<"ar_sheen", "ar_kaf", "ar_reh", "ar_alef">>, <<"ar_meem", "ar_noon", " ", "ar_feh", "ar_dad", "ar_lam", "ar_kaf">>, <<"ar_alef", "ar_reh", "ar_yeh", "ar_dal">>, <<"ar_alef_with_hamza_above", "ar_reh", "ar_yeh", "ar_dal">>, <<"ar_teh", "ar_jeem", "ar_dal", "ar_yeh", "ar_dal">>, <<"ar_alef", "ar_seen", "ar_teh", "ar_yeh_with_hamza_above", "ar_jeem", "ar_alef", "ar_reh">>,
   <<"ar_alef", "ar_seen", "ar_teh", "ar_reh", "ar_jeem", "ar_alef", "ar_ain">>, <<"ar_alef_with_hamza_below", "ar_reh", "ar_jeem", "ar_alef", "ar_ain">>, <<"ar_beh", "ar_tah", "ar_alef", "ar_qaf", "ar_teh_marbuta">>, <<"ar_waw", "ar_sad", "ar_feh", "ar_teh_marbuta">>}

_heuristic_lang(text) ==
  LET t == lower(strip(text))
  IN IF t = <<>> THEN "fr"
     ELSE IF \E i \in 1..Len(t) : IsArabic(t[i]) THEN "ar"
     ELSE IF \E i \in 1..Len(t) : t[i] \in FrenchAccents THEN "fr"
     ELSE IF Cardinality({w \in ArabicKeywords : Contains(t, w) \/ Contains(text, w)}) > 0
          THEN "ar"
     ELSE IF Hits(t, EnglishKeywords) > Hits(t, FrenchKeywords) THEN "en"
     ELSE "fr"

----------------------------------------------------------------------------
(* Session store and messages                                               *)

ScalarSlots == <<"name", "start_date", "end_date", "postal_code">>

EmptyDetails ==
  [name |-> <<>>, start_date |-> <<>>, end_date |-> <<>>, postal_code |-> <<>>,
   attachments |-> <<>>]

\* An entry of SESSION_STATE.  has_details tells whether the entry has the key
\* "details"; edit is bool(entry.get("edit")).
Entry(intent, stage, has_details, details, edit) ==
  [intent |-> intent, stage |-> stage, has_details |-> has_details,
   details |-> details, edit |-> edit]

\* SESSION_STATE.get(sid, {})
NoState == Entry("none", "none", FALSE, EmptyDetails, FALSE)

Get(st, sid) == IF sid \in DOMAIN st THEN st[sid] ELSE NoState

\* SESSION_STATE[sid] = e
Put(st, sid, e) == [k \in DOMAIN st \cup {sid} |-> IF k = sid THEN e ELSE st[k]]

\* Pop with a slip: the whole store is cleared
Pop_DropsAll(st, sid) == [k \in {} |-> st[k]]

\* SESSION_STATE.pop(sid, None)
Pop(st, sid) == [k \in DOMAIN st \ {sid} |-> st[k]]

\* state.get("details") or {...}
DetailsOf(state) == IF state.has_details THEN state.details ELSE EmptyDetails

\* ChatResponse; None is "none" for intent, <<>> for attachments and summary
\* (a present summary is the one-element sequence of its record)
ChatResponse(reply, sid, lang, intent, attachments, confirm, summary) ==
  [reply |-> reply, session_id |-> sid, lang |-> lang, intent |-> intent,
   attachments |-> attachments, confirm |-> confirm, summary |-> summary]

Outcome(st, response) == [store |-> st, resp |-> response]

\* the files of the form, in the order the handler saves them
FileRoles == <<"prescription", "insurance">>

\* "/uploads/{sid}_{role}_{name}"
Url(sid, role) == <<sid, role>>

\* SaveFiles with a slip: the list is not reset when a write raises, the file
\* saved before the failure stays in it
SaveFiles_KeepsSaved(sid, files, io_fail) ==
  IF io_fail /\ files # {} THEN
    (IF "prescription" \in files THEN <<Url(sid, "prescription")>> ELSE <<>>)
  ELSE (IF "prescription" \in files THEN <<Url(sid, "prescription")>> ELSE <<>>)
       \o (IF "insurance" \in files THEN <<Url(sid, "insurance")>> ELSE <<>>)

\* saved_urls after the "Save files" block; io_fail: writing a file raised
SaveFiles(sid, files, io_fail) ==
  IF io_fail /\ files # {} THEN <<>>
  ELSE (IF "prescription" \in files THEN <<Url(sid, "prescription")>> ELSE <<>>)
       \o (IF "insurance" \in files THEN <<Url(sid, "insurance")>> ELSE <<>>)

----------------------------------------------------------------------------
(* Labeled corrections:  <label> : <value>                                  *)

RECURSIVE SkipSpaces(_, _)
SkipSpaces(t, k) == IF k <= Len(t) /\ IsSpace(t[k]) THEN SkipSpaces(t, k + 1) ELSE k

\* where (?i)\b<p>\b\s*:\s*(.+) matches in lt with <p> starting at i
LabelFitsAt(lt, p, i) ==
  LET n == Len(p)
      k == SkipSpaces(lt, i + n)
  IN /\ i + n - 1 <= Len(lt)
     /\ lower(SubSeq(lt, i, i + n - 1)) = p
     /\ Boundary(lt, i)
     /\ Boundary(lt, i + n)
     /\ k <= Len(lt) /\ lt[k] = ":"
     /\ k + 1 <= Len(lt)

\* m.group(1).strip() of re.search(rf"(?i)\b{p}\b\s*:\s*(.+)", lt); <<>> without match
LabelValue(lt, p) ==
  LET at == {i \in 1..Len(lt) : LabelFitsAt(lt, p, i)}
  IN IF at = {} THEN <<>>
     ELSE LET i == CHOOSE i \in at : \A j \in at : i <= j
              k == SkipSpaces(lt, i + Len(p))
          IN strip(SubSeq(lt, k + 1, Len(lt)))

\* the typed extractor of a field applied to a captured value; <<>> when it fails
TypedValue(key, val) ==
  IF key \in {"start_date", "end_date"} THEN
    (IF _parse_dates(val) # <<>> THEN _parse_dates(val)[1] ELSE <<>>)
  ELSE IF key = "postal_code" THEN _parse_postal(val)
  ELSE IF key = "name" THEN _parse_name(val)
  ELSE val

\* The value one call of _apply_labeled_change gives to its field: that of the
\* first pattern whose captured value parses; <<>> when the call changes nothing.
RECURSIVE LabeledValue(_, _, _)
LabeledValue(lt, patterns, key) ==
  IF patterns = <<>> THEN <<>>
  ELSE LET val == LabelValue(lt, Head(patterns))
           v == IF val = <<>> THEN <<>> ELSE TypedValue(key, val)
       IN IF v # <<>> THEN v ELSE LabeledValue(lt, Tail(patterns), key)

NameLabels == <<<<"n", "o", "m">>, <<"n", "a", "m", "e">>, <<"ar_alef", "ar_lam", "ar_alef", "ar_seen", "ar_meem">>>>
StartLabels == <<<<"d", "a", "t", "e", " ", "d", "é", "b", "u", "t">>, <<"d", "a", "t", "e", " ", "d", "e", "b", "u", "t">>, <<"s", "t", "a", "r", "t", " ", "d", "a", "t", "e">>, <<"ar_teh", "ar_alef", "ar_reh", "ar_yeh", "ar_khah", " ", "ar_alef", "ar_lam", "ar_beh", "ar_dal", "ar_hamza">>>>
EndLabels == <<<<"d", "a", "t", "e", " ", "f", "i", "n">>, <<"e", "n", "d", " ", "d", "a", "t", "e">>, <<"ar_teh", "ar_alef", "ar_reh", "ar_yeh", "ar_khah", " ", "ar_alef", "ar_lam", "ar_noon", "ar_heh", "ar_alef", "ar_yeh", "ar_teh_marbuta">>>>
PostalLabels == <<<<"c", "o", "d", "e", " ", "p", "o", "s", "t", "a", "l">>, <<"p", "o", "s", "t", "a", "l", " ", "c", "o", "d", "e">>, <<"ar_alef", "ar_lam", "ar_reh", "ar_meem", "ar_zain", " ", "ar_alef", "ar_lam", "ar_beh", "ar_reh", "ar_yeh", "ar_dal", "ar_yeh">>>>

\* the values the four calls made in a row find in the stripped utterance
LabeledValues(lt) ==
  [name |-> LabeledValue(lt, NameLabels, "name"),
   start_date |-> LabeledValue(lt, StartLabels, "start_date"),
   end_date |-> LabeledValue(lt, EndLabels, "end_date"),
   postal_code |-> LabeledValue(lt, PostalLabels, "postal_code")]

\* One call of _apply_labeled_change on acc = [details, changed]
_apply_labeled_change(acc, v, key) ==
  IF v # <<>> THEN [details |-> [acc.details EXCEPT ![key] = v], changed |-> TRUE]
  ELSE acc

\* the four calls in their order; found is LabeledValues of the utterance
ApplyAllLabels(details, found) ==
  LET a0 == [details |-> details, changed |-> FALSE]
      a1 == _apply_labeled_change(a0, found.name, "name")
      a2 == _apply_labeled_change(a1, found.start_date, "start_date")
      a3 == _apply_labeled_change(a2, found.end_date, "end_date")
  IN _apply_labeled_change(a3, found.postal_code, "postal_code")

\* the same calls on the recap (_apply_labeled_change_cs with _parse_name_inline)
_apply_labeled_change_cs(details, found) == ApplyAllLabels(details, found)

\* word lists of the single-reply collection and of the return flow
StepWords == {<<"l", "i", "g", "n", "e">>, <<"s", "t", "e", "p">>, <<"l", "i", "n", "e">>}

IssueWords ==
  {<<"n", "e", " ", "f", "o", "n", "c", "t", "i", "o", "n", "n", "e">>, <<"n", "e", " ", "m", "a", "r", "c", "h", "e">>, <<"p", "a", "n", "n", "e">>, <<"c", "a", "s", "s">>, <<"n", "'", "a", "s", "p", "i", "r", "e">>, <<"a", "s", "p", "i", "r", "e", " ", "p", "a", "s">>,
   <<"p", "r", "o", "b", "l", "e", "m">>, <<"p", "r", "o", "b", "l", "è", "m", "e">>, <<"i", "s", "s", "u", "e">>, <<"n", "o", "t", " ", "w", "o", "r", "k", "i", "n", "g">>, <<"b", "r", "o", "k", "e", "n">>, <<"d", "o", "e", "s", "n", "'", "t">>,
   <<"d", "o", "e", "s", " ", "n", "o", "t">>, <<"ar_lam", "ar_alef", " ", "ar_yeh", "ar_ain", "ar_meem", "ar_lam">>, <<"ar_meem", "ar_ain", "ar_tah", "ar_lam">>}

EndWords ==
  {<<"f", "i", "n">>, <<"f", "i", "n", " ", "d", "'", "u", "t", "i", "l", "i", "s", "a", "t", "i", "o", "n">>, <<"p", "l", "u", "s", " ", "b", "e", "s", "o", "i", "n">>, <<"r", "e", "n", "d", "r", "e">>, <<"r", "e", "s", "t", "i", "t", "u", "e", "r">>,
   <<"r", "e", "t", "o", "u", "r", " ", "s", "i", "m", "p", "l", "e">>, <<"e", "t", "i", "q", "u", "e", "t", "t", "e">>, <<"é", "t", "i", "q", "u", "e", "t", "t", "e">>, <<"l", "a", "b", "e", "l">>, <<"c", "h", "r", "o", "n", "o", "p", "o", "s", "t">>,
   <<"d", "é", "p", "o", "s", "e", "r">>, <<"d", "e", "p", "o", "t">>, <<"r", "e", "t", "o", "u", "r", "n", "e", "r", " ", "l", "e">>, <<"ar_alef", "ar_noon", "ar_teh", "ar_heh", "ar_alef", "ar_hamza">>, <<"ar_alef_with_hamza_below", "ar_reh", "ar_jeem", "ar_alef", "ar_ain">>, <<"ar_alef_with_hamza_below", "ar_ain", "ar_alef", "ar_dal", "ar_teh_marbuta">>, <<"ar_reh", "ar_jeem", "ar_waw", "ar_ain">>}

ChoiceWords ==
  {<<"e", "c", "h", "a", "n", "g", "e">>, <<"é", "c", "h", "a", "n", "g", "e">>, <<"r", "e", "m", "b", "o", "u", "r", "s", "e", "m", "e", "n", "t">>, <<"e", "x", "c", "h", "a", "n", "g", "e">>, <<"r", "e", "f", "u", "n", "d">>, <<"r", "e", "m", "b", "o", "u", "r", "s", "e">>}

MinRefLen == 4

IsRefChar(c) == c \in AsciiLower \cup AsciiUpper \cup Digits \cup {"-"}

\* re.search(r"\b[A-Za-z0-9\-]{4,}\b", t)
HasOrderReference(t) ==
  \E i \in 1..Len(t) : \E j \in i..Len(t) :
    /\ j - i + 1 >= MinRefLen
    /\ \A k \in i..j : IsRefChar(t[k])
    /\ Boundary(t, i)
    /\ Boundary(t, j + 1)

----------------------------------------------------------------------------
(* The inputs of the model and what the classifiers and extractors read in   *)
(* them.  A text is analysed once: the analyses do not depend on the store.  *)

\* contents of the latest user message
Utterances ==
  {<<>>,
   <<"J", "e", " ", "v", "e", "u", "x", " ", "l", "o", "u", "e", "r", " ", "u", "n", " ", "t", "i", "r", "e", "-", "l", "a", "i", "t">>,
   <<"r", "e", "t", "o", "u", "r">>,
   <<"o", "u", "i">>,
   <<"n", "o", "n">>,
   <<"D", "u", "p", "o", "n", "t", ",", " ", "M", "a", "r", "i", "e">>,
   <<"2", "2", "/", "0", "1", "/", "2", "0", "2", "6", " ", "2", "9", "/", "0", "1", "/", "2", "0", "2", "6">>,
   <<"7", "5", "0", "0", "1">>,
   <<"C", "o", "d", "e", " ", "p", "o", "s", "t", "a", "l", ":", " ", "6", "9", "0", "0", "1">>,
   <<"n", "o", "n", " ", "r", "e", "t", "o", "u", "r">>,
   <<"o", "u", "i", " ", "l", "o", "c", "a", "t", "i", "o", "n">>,
   <<"D", "u", "p", "o", "n", "t", " ", "M", "a", "r", "i", "e", " ", "2", "2", "/", "0", "1", "/", "2", "0", "2", "6", " ", "2", "9", "/", "0", "1", "/", "2", "0", "2", "6", " ", "7", "5", "0", "0", "1">>}

\* contents of the latest user message, for the steps of a collection: one, two
\* and three dates in a message, and a reason given for a return
CollectUtterances ==
  {<<"r", "e", "t", "o", "u", "r">>,
   <<"J", "e", " ", "v", "e", "u", "x", " ", "l", "o", "u", "e", "r", " ", "u", "n", " ", "t", "i", "r", "e", "-", "l", "a", "i", "t">>,
   <<"o", "u", "i">>,
   <<"D", "u", "p", "o", "n", "t", ",", " ", "M", "a", "r", "i", "e">>,
   <<"2", "2", "/", "0", "1", "/", "2", "0", "2", "6">>,
   <<"2", "2", "/", "0", "1", "/", "2", "0", "2", "6", " ", "2", "9", "/", "0", "1", "/", "2", "0", "2", "6">>,
   <<"2", "2", "/", "0", "1", "/", "2", "0", "2", "6", " ", "2", "9", "/", "0", "1", "/", "2", "0", "2", "6", " ", "0", "5", "/", "0", "2", "/", "2", "0", "2", "6">>,
   <<"7", "5", "0", "0", "1">>,
   <<"f", "i", "n", " ", "d", "'", "u", "t", "i", "l", "i", "s", "a", "t", "i", "o", "n">>}

\* contents of the latest user message, for the classifiers: texts in the three
\* languages, with mixed cues, and with keywords of several intents
ClassifyUtterances ==
  {<<>>,
   <<"J", "e", " ", "v", "e", "u", "x", " ", "l", "o", "u", "e", "r", " ", "u", "n", " ", "t", "i", "r", "e", "-", "l", "a", "i", "t">>,
   <<"o", "u", "i">>,
   <<"n", "o", ",", " ", "s", "o", "r", "r", "y">>,
   <<"h", "e", "l", "l", "o", ",", " ", "w", "h", "a", "t", " ", "i", "s", " ", "t", "h", "i", "s">>,
   <<"I", " ", "n", "e", "e", "d", " ", "l", "'", "é", "t", "i", "q", "u", "e", "t", "t", "e">>,
   <<"t", "r", "è", "s", " ", "b", "i", "e", "n", " ", "m", "e", "r", "c", "i">>,
   <<"ar_meem", "ar_reh", "ar_hah", "ar_beh", "ar_alef", " ", "h", "e", "l", "l", "o", " ", "p", "l", "e", "a", "s", "e", " ", "r", "e", "n", "t">>,
   <<"t", "h", "a", "n", "k", "s">>,
   <<"r", "e", "t", "o", "u", "r", " ", "l", "o", "c", "a", "t", "i", "o", "n">>,
   <<"m", "o", "n", " ", "t", "l", " ", "n", "e", " ", "m", "a", "r", "c", "h", "e", " ", "p", "a", "s">>,
   <<"l", "o", "c", "a", "t", "i", "o", "n", ":", " ", "m", "o", "n", " ", "t", "l", " ", "n", "e", " ", "m", "a", "r", "c", "h", "e", " ", "p", "a", "s">>,
   <<"p", "r", "o", "l", "o", "n", "g", "e", "r", " ", "l", "e", " ", "r", "e", "t", "o", "u", "r">>,
   <<"r", "e", "t", "o", "u", "r">>}

\* contents of the latest user message, for the corrections of a recap
EditUtterances ==
  {<<"r", "e", "t", "o", "u", "r">>,
   <<"o", "u", "i">>,
   <<"D", "u", "p", "o", "n", "t", ",", " ", "M", "a", "r", "i", "e">>,
   <<"2", "2", "/", "0", "1", "/", "2", "0", "2", "6", " ", "2", "9", "/", "0", "1", "/", "2", "0", "2", "6">>,
   <<"7", "5", "0", "0", "1">>,
   <<"n", "o", "n", " ", "r", "e", "t", "o", "u", "r">>,
   <<"C", "o", "d", "e", " ", "p", "o", "s", "t", "a", "l", ":", " ", "6", "9", "0", "0", "1">>,
   <<"D", "a", "t", "e", " ", "f", "i", "n", ":", " ", "3", "0", "/", "0", "1", "/", "2", "0", "2", "6", " ", "C", "o", "d", "e", " ", "p", "o", "s", "t", "a", "l", ":", " ", "6", "9", "0", "0", "1">>}

\* contents of the latest user message, for clients with several sessions
PairUtterances == {<<"r", "e", "t", "o", "u", "r">>, <<"o", "u", "i">>, <<"n", "o", "n">>, <<"b", "o", "n", "j", "o", "u", "r">>}

\* values of the form field language; <<>> when it is not sent
LanguageHints == {<<>>}

\* answers of the language-identifier completion; <<>>: switched off or failed
LlmAnswers == {<<>>}

\* language hints of the clients of the classifiers: a code in capitals, a
\* language name, a code the service does not know
ClassifyHints == {<<>>, <<"E", "N">>, <<"a", "r", "a", "b", "e">>, <<"d", "e">>}

\* answers of the language-identifier completion when it is switched on
ClassifyLlmAnswers == {<<>>, <<"e", "n">>, <<"d", "e">>}

\* user_text: the content of the latest user message, stripped
Texts ==
  {strip(u) : u \in Utterances \cup CollectUtterances \cup ClassifyUtterances
                     \cup EditUtterances \cup PairUtterances}

\* what the handler reads in its user_text
Parsed ==
  [t \in Texts |->
     [text |-> t,
      affirmative |-> _is_affirmative(t),
      negative |-> _is_negative(t),
      intent |-> _detect_intent(t),
      name |-> _parse_name(t),
      dates |-> _parse_dates(t),
      postal |-> _parse_postal(t),
      labeled |-> LabeledValues(t),
      quick |-> _quick_lang(t),
      heuristic |-> _heuristic_lang(t),
      words |-> Tokens(t, <<>>),
      step_words |-> ContainsAny(lower(t), StepWords),
      issue |-> ContainsAny(lower(t), IssueWords),
      end_of_use |-> ContainsAny(lower(t), EndWords),
      choice |-> ContainsAny(lower(t), ChoiceWords),
      order_reference |-> HasOrderReference(t)]]

Normalized ==
  [s \in LanguageHints \cup LlmAnswers \cup ClassifyHints \cup ClassifyLlmAnswers |->
     normalize_lang(s)]

\* llm is the answer of the language-identifier completion, <<>> when the
\* refinement is switched off (LANG_USE_LLM) or the call fails
\* p is Parsed of the text, llm_lang the normalised answer
llm_detect_language(p, llm_lang) ==
  IF p.text = <<>> THEN "fr"
  ELSE IF llm_lang \in Langs THEN llm_lang ELSE p.heuristic

\* ChooseLang with a slip: a hint that is not recognised is dropped and the
\* language is detected
ChooseLang_DropsUnknownHint(language, p, llm) ==
  LET norm == Normalized
  IN IF language # <<>> /\ norm[language] # NoLang THEN norm[language]
     ELSE IF p.quick # NoLang THEN p.quick
     ELSE IF p.text # <<>> THEN llm_detect_language(p, norm[llm])
     ELSE "fr"

\* the language of a turn: the client's hint, else the quick cues, else the detector
ChooseLang(language, p, llm) ==
  LET norm == Normalized
  IN IF language # <<>> THEN
       (IF norm[language] # NoLang THEN norm[language] ELSE "fr")
     ELSE IF p.quick # NoLang THEN p.quick
     ELSE IF p.text # <<>> THEN llm_detect_language(p, norm[llm])
     ELSE "fr"

----------------------------------------------------------------------------
(* The stages of the /chat handler                                          *)

NoIntent == "none"

\* the intent trigger that restarts a flow whatever the stored stage
GuardFires(p) ==
  /\ p.intent \in FlowIntents
  /\ ~p.affirmative
  /\ ~p.negative

\* OnGuard with a slip: the trigger resets the stage but keeps the stored details
OnGuard_KeepsDetails(st, sid, intent, lang) ==
  Outcome(Put(st, sid, [Get(st, sid) EXCEPT !.intent = intent, !.stage = "asked_confirm"]),
          ChatResponse(<<"ask_confirm", intent>>, sid, lang, NoIntent, <<>>, FALSE, <<>>))

OnGuard(st, sid, intent, lang) ==
  Outcome(Put(st, sid, Entry(intent, "asked_confirm", FALSE, EmptyDetails, FALSE)),
          ChatResponse(<<"ask_confirm", intent>>, sid, lang, NoIntent, <<>>, FALSE, <<>>))

\* OnAskedConfirm with a slip: the uploads of the affirming turn are recorded
OnAskedConfirm_KeepsUploads(st, sid, state, p, lang, saved_urls) ==
  LET prev_intent == state.intent
  IN IF p.affirmative THEN
       Outcome(Put(st, sid, Entry(prev_intent, "collect_details", TRUE,
                                  [EmptyDetails EXCEPT !.attachments = saved_urls], FALSE)),
               ChatResponse(IF prev_intent = "return" THEN <<"return_reason">>
                                                      ELSE <<"prompt", "name">>,
                            sid, lang, prev_intent, saved_urls, FALSE, <<>>))
     ELSE IF p.negative THEN
       Outcome(Pop(st, sid),
               ChatResponse(<<"cancelled">>, sid, lang, NoIntent, <<>>, FALSE, <<>>))
     ELSE
       Outcome(st,
               ChatResponse(<<"ask_confirm", prev_intent>>, sid, lang, NoIntent, <<>>, FALSE, <<>>))

\* OnAskedConfirm with a slip: a refusal is answered but the entry is not removed
OnAskedConfirm_NoPop(st, sid, state, p, lang, saved_urls) ==
  LET prev_intent == state.intent
  IN IF p.affirmative THEN
       Outcome(Put(st, sid, Entry(prev_intent, "collect_details", TRUE, EmptyDetails, FALSE)),
               ChatResponse(IF prev_intent = "return" THEN <<"return_reason">>
                                                      ELSE <<"prompt", "name">>,
                            sid, lang, prev_intent, saved_urls, FALSE, <<>>))
     ELSE IF p.negative THEN
       Outcome(st,
               ChatResponse(<<"cancelled">>, sid, lang, NoIntent, <<>>, FALSE, <<>>))
     ELSE
       Outcome(st,
               ChatResponse(<<"ask_confirm", prev_intent>>, sid, lang, NoIntent, <<>>, FALSE, <<>>))

\* OnAskedConfirm with a slip: the uploads of the affirming turn are not echoed
OnAskedConfirm_NoEcho(st, sid, state, p, lang, saved_urls) ==
  LET prev_intent == state.intent
  IN IF p.affirmative THEN
       Outcome(Put(st, sid, Entry(prev_intent, "collect_details", TRUE, EmptyDetails, FALSE)),
               ChatResponse(IF prev_intent = "return" THEN <<"return_reason">>
                                                      ELSE <<"prompt", "name">>,
                            sid, lang, prev_intent, <<>>, FALSE, <<>>))
     ELSE IF p.negative THEN
       Outcome(Pop(st, sid),
               ChatResponse(<<"cancelled">>, sid, lang, NoIntent, <<>>, FALSE, <<>>))
     ELSE
       Outcome(st,
               ChatResponse(<<"ask_confirm", prev_intent>>, sid, lang, NoIntent, <<>>, FALSE, <<>>))

\* stage asked_confirm
OnAskedConfirm(st, sid, state, p, lang, saved_urls) ==
  LET prev_intent == state.intent
  IN IF p.affirmative THEN
       Outcome(Put(st, sid, Entry(prev_intent, "collect_details", TRUE, EmptyDetails, FALSE)),
               ChatResponse(IF prev_intent = "return" THEN <<"return_reason">>
                                                      ELSE <<"prompt", "name">>,
                            sid, lang, prev_intent, saved_urls, FALSE, <<>>))
     ELSE IF p.negative THEN
       Outcome(Pop(st, sid),
               ChatResponse(<<"cancelled">>, sid, lang, NoIntent, <<>>, FALSE, <<>>))
     ELSE
       Outcome(st,
               ChatResponse(<<"ask_confirm", prev_intent>>, sid, lang, NoIntent, <<>>, FALSE, <<>>))

\* [f for f in ["name", "start_date", "end_date", "postal_code"] if not details.get(f)]
MissingOrder(details) == SelectSeq(ScalarSlots, LAMBDA f : details[f] = <<>>)

\* FillNext with a slip: every extractor is applied and its value taken, also for
\* a slot that is already filled
FillNext_Overwrites(details, missing_order, p) ==
  [details EXCEPT
     !.name = IF p.name # <<>> THEN p.name ELSE @,
     !.start_date = IF p.dates # <<>> THEN p.dates[1] ELSE @,
     !.end_date = IF Len(p.dates) >= 2 THEN p.dates[2] ELSE @,
     !.postal_code = IF p.postal # <<>> THEN p.postal ELSE @]

\* FillNext with a slip: every empty slot is filled by its own extractor
FillNext_AllEmpty(details, missing_order, p) ==
  [details EXCEPT
     !.name = IF @ = <<>> THEN p.name ELSE @,
     !.start_date = IF @ = <<>> /\ p.dates # <<>> THEN p.dates[1] ELSE @,
     !.end_date = IF @ = <<>> /\ p.dates # <<>> THEN p.dates[Len(p.dates)] ELSE @,
     !.postal_code = IF @ = <<>> THEN p.postal ELSE @]

\* FillNext with a slip: at the start_date step the last date found is taken as
\* end_date
FillNext_LastAsEnd(details, missing_order, p) ==
  IF missing_order = <<>> THEN details
  ELSE LET nxt == missing_order[1]
           ds == p.dates
       IN IF nxt = "name" THEN
            (IF p.name # <<>>
             THEN [details EXCEPT !.name = p.name] ELSE details)
          ELSE IF nxt = "start_date" THEN
            (IF ds # <<>>
             THEN (IF Len(ds) >= 2 /\ details.end_date = <<>>
                   THEN [details EXCEPT !.start_date = ds[1], !.end_date = ds[Len(ds)]]
                   ELSE [details EXCEPT !.start_date = ds[1]])
             ELSE details)
          ELSE IF nxt = "end_date" THEN
            (IF ds # <<>> THEN [details EXCEPT !.end_date = ds[Len(ds)]] ELSE details)
          ELSE
            (IF p.postal # <<>>
             THEN [details EXCEPT !.postal_code = p.postal] ELSE details)

\* FillNext with a slip: at the end_date step the first date found is taken
FillNext_FirstAsEnd(details, missing_order, p) ==
  IF missing_order = <<>> THEN details
  ELSE LET nxt == missing_order[1]
           ds == p.dates
       IN IF nxt = "name" THEN
            (IF p.name # <<>>
             THEN [details EXCEPT !.name = p.name] ELSE details)
          ELSE IF nxt = "start_date" THEN
            (IF ds # <<>>
             THEN (IF Len(ds) >= 2 /\ details.end_date = <<>>
                   THEN [details EXCEPT !.start_date = ds[1], !.end_date = ds[2]]
                   ELSE [details EXCEPT !.start_date = ds[1]])
             ELSE details)
          ELSE IF nxt = "end_date" THEN
            (IF ds # <<>> THEN [details EXCEPT !.end_date = ds[1]] ELSE details)
          ELSE
            (IF p.postal # <<>>
             THEN [details EXCEPT !.postal_code = p.postal] ELSE details)

\* FillNext with a slip: a postal code is read and not kept
FillNext_DropsPostal(details, missing_order, p) ==
  IF missing_order = <<>> THEN details
  ELSE LET nxt == missing_order[1]
           ds == p.dates
       IN IF nxt = "name" THEN
            (IF p.name # <<>>
             THEN [details EXCEPT !.name = p.name] ELSE details)
          ELSE IF nxt = "start_date" THEN
            (IF ds # <<>>
             THEN (IF Len(ds) >= 2 /\ details.end_date = <<>>
                   THEN [details EXCEPT !.start_date = ds[1], !.end_date = ds[2]]
                   ELSE [details EXCEPT !.start_date = ds[1]])
             ELSE details)
          ELSE IF nxt = "end_date" THEN
            (IF ds # <<>> THEN [details EXCEPT !.end_date = ds[Len(ds)]] ELSE details)
          ELSE details

\* the utterance mapped to the next missing field (missing_order was taken
\* before the attachments and the corrections of this turn)
FillNext(details, missing_order, p) ==
  IF missing_order = <<>> THEN details
  ELSE LET nxt == missing_order[1]
           ds == p.dates
       IN IF nxt = "name" THEN
            (IF p.name # <<>>
             THEN [details EXCEPT !.name = p.name] ELSE details)
          ELSE IF nxt = "start_date" THEN
            (IF ds # <<>>
             THEN (IF Len(ds) >= 2 /\ details.end_date = <<>>
                   THEN [details EXCEPT !.start_date = ds[1], !.end_date = ds[2]]
                   ELSE [details EXCEPT !.start_date = ds[1]])
             ELSE details)
          ELSE IF nxt = "end_date" THEN
            (IF ds # <<>> THEN [details EXCEPT !.end_date = ds[Len(ds)]] ELSE details)
          ELSE
            (IF p.postal # <<>>
             THEN [details EXCEPT !.postal_code = p.postal] ELSE details)

MinAttachments == 2

\* NeedAttachments with a slip: the return intent is asked for its files too
NeedAttachments_Always(intent) == intent \in {"rent", "renew", "return"}

NeedAttachments(intent) == intent \in {"rent", "renew"}

\* HaveAllFields with a slip: the attachments are not counted
HaveAllFields_ScalarsOnly(intent, details) ==
  \A i \in 1..Len(ScalarSlots) : details[ScalarSlots[i]] # <<>>

HaveAllFields(intent, details) ==
  /\ \A i \in 1..Len(ScalarSlots) : details[ScalarSlots[i]] # <<>>
  /\ NeedAttachments(intent) => Len(details.attachments) >= MinAttachments

\* NextPrompt with a slip: the files are asked for as soon as they are missing
NextPrompt_FilesFirst(intent, details) ==
  LET next_missing == MissingOrder(details)
  IN IF NeedAttachments(intent) /\ Len(details.attachments) < MinAttachments
     THEN "attachments"
     ELSE IF next_missing # <<>> THEN next_missing[1] ELSE "attachments"

\* the key of the prompt sent when the collection goes on
NextPrompt(intent, details) ==
  LET next_missing == MissingOrder(details)
  IN IF next_missing = <<>> /\ NeedAttachments(intent)
          /\ Len(details.attachments) < MinAttachments
     THEN "attachments"
     ELSE IF next_missing # <<>> THEN next_missing[1] ELSE "attachments"

\* Complete with a slip: the prompt of a collection that goes on asks to confirm
Complete_ConfirmsEarly(st, sid, prev_intent, details, lang) ==
  IF HaveAllFields(prev_intent, details) THEN
    Outcome(Put(st, sid, Entry(prev_intent, "confirm_summary", TRUE, details, FALSE)),
            ChatResponse(<<"summary">>, sid, lang, prev_intent, details.attachments,
                         TRUE, <<details>>))
  ELSE
    Outcome(Put(st, sid, Entry(prev_intent, "collect_details", TRUE, details, FALSE)),
            ChatResponse(<<"prompt", NextPrompt(prev_intent, details)>>, sid, lang,
                         prev_intent, details.attachments, TRUE, <<details>>))

\* "Persist details" and "Check completion"
Complete(st, sid, prev_intent, details, lang) ==
  IF HaveAllFields(prev_intent, details) THEN
    Outcome(Put(st, sid, Entry(prev_intent, "confirm_summary", TRUE, details, FALSE)),
            ChatResponse(<<"summary">>, sid, lang, prev_intent, details.attachments,
                         TRUE, <<details>>))
  ELSE
    Outcome(Put(st, sid, Entry(prev_intent, "collect_details", TRUE, details, FALSE)),
            ChatResponse(<<"prompt", NextPrompt(prev_intent, details)>>, sid, lang,
                         prev_intent, details.attachments, FALSE, <<>>))

\* OnCollectDetails with a slip: in edit mode a text without a recognised
\* correction goes on to the completion check
OnCollectDetails_NoReprompt(st, sid, state, intent, p, lang, saved_urls) ==
  LET prev_intent == IF state.intent # NoIntent THEN state.intent ELSE intent
      details0 == DetailsOf(state)
      missing_order == MissingOrder(details0)
      details == IF saved_urls # <<>> THEN [details0 EXCEPT !.attachments = saved_urls]
                                      ELSE details0
      lt == strip(p.text)
      acc == ApplyAllLabels(details, p.labeled)
  IN IF state.edit /\ lt = <<>> THEN
       Outcome(Put(st, sid, Entry(prev_intent, "collect_details", TRUE, details, TRUE)),
               ChatResponse(<<"which_field">>, sid, lang, prev_intent,
                            details.attachments, FALSE, <<>>))
     ELSE
       Complete(st, sid, prev_intent,
                FillNext(IF state.edit THEN acc.details ELSE details, missing_order, p),
                lang)

\* OnCollectDetails with a slip: a correction is applied but the session stays
\* in edit mode, the recap is not shown again
OnCollectDetails_StaysInEdit(st, sid, state, intent, p, lang, saved_urls) ==
  LET prev_intent == IF state.intent # NoIntent THEN state.intent ELSE intent
      details0 == DetailsOf(state)
      missing_order == MissingOrder(details0)
      details == IF saved_urls # <<>> THEN [details0 EXCEPT !.attachments = saved_urls]
                                      ELSE details0
      lt == strip(p.text)
      acc == ApplyAllLabels(details, p.labeled)
  IN IF state.edit /\ lt = <<>> THEN
       Outcome(Put(st, sid, Entry(prev_intent, "collect_details", TRUE, details, TRUE)),
               ChatResponse(<<"which_field">>, sid, lang, prev_intent,
                            details.attachments, FALSE, <<>>))
     ELSE IF state.edit THEN
       Outcome(Put(st, sid, Entry(prev_intent, "collect_details", TRUE, acc.details, TRUE)),
               ChatResponse(<<"field_not_identified">>, sid, lang, prev_intent,
                            acc.details.attachments, FALSE, <<>>))
     ELSE
       Complete(st, sid, prev_intent,
                FillNext(IF state.edit THEN acc.details ELSE details, missing_order, p),
                lang)

\* OnCollectDetails with a slip: the uploads of the turn are added to the stored
\* attachments while these are fewer than two
OnCollectDetails_ExtendsAttachments(st, sid, state, intent, p, lang, saved_urls) ==
  LET prev_intent == IF state.intent # NoIntent THEN state.intent ELSE intent
      details0 == DetailsOf(state)
      missing_order == MissingOrder(details0)
      details == IF saved_urls # <<>> /\ Len(details0.attachments) < MinAttachments
                 THEN [details0 EXCEPT !.attachments = @ \o saved_urls]
                 ELSE IF saved_urls # <<>> THEN [details0 EXCEPT !.attachments = saved_urls]
                 ELSE details0
      lt == strip(p.text)
      acc == ApplyAllLabels(details, p.labeled)
  IN IF state.edit /\ lt = <<>> THEN
       Outcome(Put(st, sid, Entry(prev_intent, "collect_details", TRUE, details, TRUE)),
               ChatResponse(<<"which_field">>, sid, lang, prev_intent,
                            details.attachments, FALSE, <<>>))
     ELSE IF state.edit /\ ~acc.changed THEN
       Outcome(Put(st, sid, Entry(prev_intent, "collect_details", TRUE, acc.details, TRUE)),
               ChatResponse(<<"field_not_identified">>, sid, lang, prev_intent,
                            acc.details.attachments, FALSE, <<>>))
     ELSE
       Complete(st, sid, prev_intent,
                FillNext(IF state.edit THEN acc.details ELSE details, missing_order, p),
                lang)

\* stage collect_details
OnCollectDetails(st, sid, state, intent, p, lang, saved_urls) ==
  LET prev_intent == IF state.intent # NoIntent THEN state.intent ELSE intent
      details0 == DetailsOf(state)
      missing_order == MissingOrder(details0)
      details == IF saved_urls # <<>> THEN [details0 EXCEPT !.attachments = saved_urls]
                                      ELSE details0
      lt == strip(p.text)
      acc == ApplyAllLabels(details, p.labeled)
  IN IF state.edit /\ lt = <<>> THEN
       Outcome(Put(st, sid, Entry(prev_intent, "collect_details", TRUE, details, TRUE)),
               ChatResponse(<<"which_field">>, sid, lang, prev_intent,
                            details.attachments, FALSE, <<>>))
     ELSE IF state.edit /\ ~acc.changed THEN
       Outcome(Put(st, sid, Entry(prev_intent, "collect_details", TRUE, acc.details, TRUE)),
               ChatResponse(<<"field_not_identified">>, sid, lang, prev_intent,
                            acc.details.attachments, FALSE, <<>>))
     ELSE
       Complete(st, sid, prev_intent,
                FillNext(IF state.edit THEN acc.details ELSE details, missing_order, p),
                lang)

\* the fields a single-reply submission lacks (stage awaiting_details)
BatchMissing(p, saved_urls) ==
  (IF Len(p.words) < 2 THEN <<"name_firstname">> ELSE <<>>)
  \o (IF Len(p.dates) < 2 THEN <<"date_range">> ELSE <<>>)
  \o (IF p.postal = <<>> THEN <<"postal_code">> ELSE <<>>)
  \o (IF Len(saved_urls) < MinAttachments THEN <<"attachments">> ELSE <<>>)

MaxSingleWords == 4

LooksSingle(p) ==
  \/ p.postal # <<>>
  \/ p.dates # <<>>
  \/ Len(p.words) <= MaxSingleWords

BatchSummary(p, saved_urls) ==
  LET words == p.words
      ds == p.dates
  IN [name |-> IF Len(words) >= 2 THEN words[1] \o <<" ">> \o words[2] ELSE <<>>,
      start_date |-> IF Len(ds) >= 2 THEN ds[1] ELSE <<>>,
      end_date |-> IF Len(ds) >= 2 THEN ds[2] ELSE <<>>,
      postal_code |-> p.postal,
      attachments |-> saved_urls]

\* the fields an issue/exchange return lacks
ReturnMissing(p, saved_urls) ==
  (IF ~p.order_reference THEN <<"order_reference">> ELSE <<>>)
  \o (IF ~p.choice THEN <<"choice">> ELSE <<>>)
  \o (IF Len(saved_urls) < 1 THEN <<"photo">> ELSE <<>>)

\* the first awaiting_details block handles the turn when the stored intent is a flow
AwaitingHandles(state) == state.stage = "awaiting_details" /\ state.intent \in FlowIntents

\* stage awaiting_details (single-reply collection)
OnAwaitingDetails(st, sid, state, p, lang, saved_urls) ==
  LET prev_intent == state.intent
      missing == BatchMissing(p, saved_urls)
      opt_missing == ReturnMissing(p, saved_urls)
  IN IF prev_intent \in {"rent", "renew"} THEN
       (IF missing # <<>> THEN
          Outcome(IF LooksSingle(p) \/ p.step_words
                  THEN Put(st, sid, Entry(prev_intent, "collect_details", TRUE,
                                          [EmptyDetails EXCEPT !.attachments = saved_urls],
                                          FALSE))
                  ELSE st,
                  ChatResponse(<<"missing_info_or_steps">> \o missing, sid, lang, prev_intent,
                               saved_urls, FALSE, <<>>))
        ELSE
          Outcome(Put(st, sid, Entry(prev_intent, "confirm_summary", TRUE,
                                     BatchSummary(p, saved_urls), FALSE)),
                  ChatResponse(<<"summary">>, sid, lang, prev_intent, saved_urls, TRUE,
                               <<BatchSummary(p, saved_urls)>>)))
     ELSE IF p.end_of_use /\ ~p.issue THEN
       Outcome(Pop(st, sid),
               ChatResponse(<<"end_of_use">>, sid, lang, prev_intent, <<>>, FALSE, <<>>))
     ELSE IF opt_missing # <<>> THEN
       Outcome(st,
               ChatResponse(<<"return_missing">> \o opt_missing, sid, lang, prev_intent,
                            saved_urls, FALSE, <<>>))
     ELSE
       Outcome(Pop(st, sid),
               ChatResponse(<<"return_received">>, sid, lang, prev_intent, <<>>, FALSE, <<>>))

\* "Default: ask confirmation (when new intent detected)"
AskConfirmation(st, sid, intent, lang) ==
  Outcome(Put(st, sid, Entry(intent, "asked_confirm", FALSE, EmptyDetails, FALSE)),
          ChatResponse(<<"ask_confirm", intent>>, sid, lang, NoIntent, <<>>, FALSE, <<>>))

\* AfterRecap with a slip: an answer is taken as the answer to the confirmation
\* question also when no session is stored
AfterRecap_AnswersUnasked(st, sid, state, intent, p, lang, saved_urls) ==
  IF state.stage \in {"asked_confirm", "none"} THEN
    (IF p.affirmative THEN
       Outcome(Put(st, sid, Entry(intent, "collect_details", TRUE, EmptyDetails, FALSE)),
               ChatResponse(IF intent = "return" THEN <<"return_send_reference">>
                                                 ELSE <<"prompt", "name">>,
                            sid, lang, intent, saved_urls, FALSE, <<>>))
     ELSE IF p.negative THEN
       Outcome(Pop(st, sid),
               ChatResponse(<<"cancelled">>, sid, lang, NoIntent, <<>>, FALSE, <<>>))
     ELSE
       Outcome(st, ChatResponse(<<"ask_confirm", intent>>, sid, lang, NoIntent, <<>>,
                                FALSE, <<>>)))
  ELSE IF state.stage = "awaiting_details" /\ intent \in {"rent", "renew"} THEN
    (IF BatchMissing(p, saved_urls) # <<>> THEN
       Outcome(st, ChatResponse(<<"missing_info">> \o BatchMissing(p, saved_urls), sid, lang,
                                intent, saved_urls, FALSE, <<>>))
     ELSE
       Outcome(Pop(st, sid),
               ChatResponse(<<"success">>, sid, lang, intent, <<>>, FALSE, <<>>)))
  ELSE AskConfirmation(st, sid, intent, lang)

\* the stage checks that follow the recap inside the intent flow
AfterRecap(st, sid, state, intent, p, lang, saved_urls) ==
  LET missing == BatchMissing(p, saved_urls)
  IN IF state.stage = "asked_confirm" THEN
       (IF p.affirmative THEN
          Outcome(Put(st, sid, Entry(intent, "collect_details", TRUE, EmptyDetails, FALSE)),
                  ChatResponse(IF intent = "return" THEN <<"return_send_reference">>
                                                    ELSE <<"prompt", "name">>,
                               sid, lang, intent, saved_urls, FALSE, <<>>))
        ELSE IF p.negative THEN
          Outcome(Pop(st, sid),
                  ChatResponse(<<"cancelled">>, sid, lang, NoIntent, <<>>, FALSE, <<>>))
        ELSE
          Outcome(st, ChatResponse(<<"ask_confirm", intent>>, sid, lang, NoIntent, <<>>,
                                   FALSE, <<>>)))
     ELSE IF state.stage = "awaiting_details" /\ intent \in {"rent", "renew"} THEN
       (IF missing # <<>> THEN
          Outcome(st, ChatResponse(<<"missing_info">> \o missing, sid, lang, intent,
                                   saved_urls, FALSE, <<>>))
        ELSE
          Outcome(Pop(st, sid),
                  ChatResponse(<<"success">>, sid, lang, intent, <<>>, FALSE, <<>>)))
     ELSE AskConfirmation(st, sid, intent, lang)

\* OnConfirmSummary with a slip: the confirmed order is kept as a finished entry
OnConfirmSummary_KeepsDone(st, sid, state, intent, p, lang, saved_urls) ==
  LET prev_intent == state.intent
      current == DetailsOf(state)
      acc == _apply_labeled_change_cs(current, p.labeled)
  IN IF p.affirmative THEN
       Outcome(Put(st, sid, Entry(prev_intent, "done", TRUE, current, FALSE)),
               ChatResponse(<<"success">>, sid, lang, prev_intent, <<>>, FALSE, <<>>))
     ELSE IF p.negative THEN
       Outcome(Put(st, sid, Entry(prev_intent, "collect_details", TRUE, current, TRUE)),
               ChatResponse(<<"which_field">>, sid, lang, prev_intent, current.attachments,
                            FALSE, <<>>))
     ELSE IF acc.changed THEN
       Outcome(Put(st, sid, Entry(prev_intent, "confirm_summary", TRUE, acc.details, FALSE)),
               ChatResponse(<<"">>, sid, lang, prev_intent, acc.details.attachments, TRUE,
                            <<acc.details>>))
     ELSE AfterRecap(st, sid, state, intent, p, lang, saved_urls)

\* OnConfirmSummary with a slip: a refused recap goes back to the collection
\* without the edit flag
OnConfirmSummary_PlainCollect(st, sid, state, intent, p, lang, saved_urls) ==
  LET prev_intent == state.intent
      current == DetailsOf(state)
      acc == _apply_labeled_change_cs(current, p.labeled)
  IN IF p.affirmative THEN
       Outcome(Pop(st, sid),
               ChatResponse(<<"success">>, sid, lang, prev_intent, <<>>, FALSE, <<>>))
     ELSE IF p.negative THEN
       Outcome(Put(st, sid, Entry(prev_intent, "collect_details", TRUE, current, FALSE)),
               ChatResponse(<<"which_field">>, sid, lang, prev_intent, current.attachments,
                            FALSE, <<>>))
     ELSE IF acc.changed THEN
       Outcome(Put(st, sid, Entry(prev_intent, "confirm_summary", TRUE, acc.details, FALSE)),
               ChatResponse(<<"">>, sid, lang, prev_intent, acc.details.attachments, TRUE,
                            <<acc.details>>))
     ELSE AfterRecap(st, sid, state, intent, p, lang, saved_urls)

\* OnConfirmSummary with a slip: a refused recap starts the edit from empty slots
OnConfirmSummary_EditFromScratch(st, sid, state, intent, p, lang, saved_urls) ==
  LET prev_intent == state.intent
      current == DetailsOf(state)
      acc == _apply_labeled_change_cs(current, p.labeled)
  IN IF p.affirmative THEN
       Outcome(Pop(st, sid),
               ChatResponse(<<"success">>, sid, lang, prev_intent, <<>>, FALSE, <<>>))
     ELSE IF p.negative THEN
       Outcome(Put(st, sid, Entry(prev_intent, "collect_details", TRUE, EmptyDetails, TRUE)),
               ChatResponse(<<"which_field">>, sid, lang, prev_intent, <<>>, FALSE, <<>>))
     ELSE IF acc.changed THEN
       Outcome(Put(st, sid, Entry(prev_intent, "confirm_summary", TRUE, acc.details, FALSE)),
               ChatResponse(<<"">>, sid, lang, prev_intent, acc.details.attachments, TRUE,
                            <<acc.details>>))
     ELSE AfterRecap(st, sid, state, intent, p, lang, saved_urls)

\* stage confirm_summary, looked at only inside the intent flow
OnConfirmSummary(st, sid, state, intent, p, lang, saved_urls) ==
  LET prev_intent == state.intent
      current == DetailsOf(state)
      acc == _apply_labeled_change_cs(current, p.labeled)
  IN IF p.affirmative THEN
       Outcome(Pop(st, sid),
               ChatResponse(<<"success">>, sid, lang, prev_intent, <<>>, FALSE, <<>>))
     ELSE IF p.negative THEN
       Outcome(Put(st, sid, Entry(prev_intent, "collect_details", TRUE, current, TRUE)),
               ChatResponse(<<"which_field">>, sid, lang, prev_intent, current.attachments,
                            FALSE, <<>>))
     ELSE IF acc.changed THEN
       Outcome(Put(st, sid, Entry(prev_intent, "confirm_summary", TRUE, acc.details, FALSE)),
               ChatResponse(<<"">>, sid, lang, prev_intent, acc.details.attachments, TRUE,
                            <<acc.details>>))
     ELSE AfterRecap(st, sid, state, intent, p, lang, saved_urls)

\* "Intent flow (start new intent if no ongoing state)"
IntentFlow(st, sid, state, intent, p, lang, saved_urls) ==
  IF state.stage = "confirm_summary"
  THEN OnConfirmSummary(st, sid, state, intent, p, lang, saved_urls)
  ELSE AfterRecap(st, sid, state, intent, p, lang, saved_urls)

\* OpenQuestion with a slip: an entry is written for the turn
OpenQuestion_StartsSession(st, sid, lang) ==
  Outcome(Put(st, sid, Entry("other", "asked_confirm", FALSE, EmptyDetails, FALSE)),
          ChatResponse(<<"open_question">>, sid, lang, NoIntent, <<>>, FALSE, <<>>))

\* OpenQuestion with a slip: the session of the turn is dropped
OpenQuestion_DropsSession(st, sid, lang) ==
  Outcome(Pop(st, sid),
          ChatResponse(<<"open_question">>, sid, lang, NoIntent, <<>>, FALSE, <<>>))

\* "Regular chat: RAG + LLM fallback": the store is not touched; the reply is
\* the retriever's answer, the generative model's, or the apology
OpenQuestion(st, sid, lang) ==
  Outcome(st, ChatResponse(<<"open_question">>, sid, lang, NoIntent, <<>>, FALSE, <<>>))

\* the stage checks of chat() in their order; state is the entry read for sid,
\* p what is read in user_text, saved_urls the uploads saved for the turn
Dispatch(st, sid, state, p, lang, saved_urls) ==
  IF GuardFires(p) THEN OnGuard(st, sid, p.intent, lang)
  ELSE IF state.stage = "asked_confirm"
    THEN OnAskedConfirm(st, sid, state, p, lang, saved_urls)
  ELSE IF state.stage = "collect_details"
    THEN OnCollectDetails(st, sid, state, p.intent, p, lang, saved_urls)
  ELSE IF AwaitingHandles(state)
    THEN OnAwaitingDetails(st, sid, state, p, lang, saved_urls)
  ELSE IF p.intent \in FlowIntents
    THEN IntentFlow(st, sid, state, p.intent, p, lang, saved_urls)
  ELSE OpenQuestion(st, sid, lang)

\* the body of chat() after the message batch was parsed
chat(st, sid, content, language, files, io_fail, llm) ==
  Dispatch(st, sid, Get(st, sid), Parsed[strip(content)],
           ChooseLang(language, Parsed[strip(content)], llm),
           SaveFiles(sid, files, io_fail))

----------------------------------------------------------------------------
(* The service: the session store SESSION_STATE; the last request, the       *)
(* entry the handler read for it (its local state) and the response it gave; *)
(* the /chat coroutines suspended on the event loop; the retrieval index;    *)
(* the collection turns a client took since its session began to collect     *)

VARIABLES store, req, state, resp, flight, rag, turns

vars == <<store, req, state, resp, flight, rag, turns>>

None == "none"

\* the session ids the clients send
SessionIds == {"s1"}

\* the ids uuid4() gives to the requests that carry none
Uuids == {"u1"}

\* the uploads of a request: none, one file, both, and both with a failed write
Uploads ==
  {<<files, FALSE>> : files \in SUBSET {"prescription", "insurance"}}
  \cup {<<{"prescription", "insurance"}, TRUE>>}

Request(parseable, session_id, content, language, files, io_fail) ==
  [parseable |-> parseable, session_id |-> session_id, content |-> content,
   language |-> language, files |-> files, io_fail |-> io_fail]

\* the /chat coroutines of one client that the event loop holds at a time
Coroutines == {"a", "b"}

\* a coroutine: where it stands (idle, suspended on the read of a file, done),
\* the form it was called with and the store as it was when it was called
Coroutine(pc, content, language, files, io_fail, arrived) ==
  [pc |-> pc, content |-> content, language |-> language, files |-> files,
   io_fail |-> io_fail, arrived |-> arrived]

NoCoroutine == Coroutine("idle", <<>>, <<>>, {}, FALSE, <<>>)

\* no coroutine on the loop; base is the store the next ones start from
NoFlight(base) == [base |-> base, co |-> [c \in Coroutines |-> NoCoroutine]]

\* the question/answer rows a QR.csv may hold; Missing: there is no such file
Missing == <<"missing">>

CsvFiles ==
  {Missing, <<>>, <<"q1", "a1">>, <<"q2", "a2">>,
   <<"q1", "a1", "q2", "a2">>, <<"q2", "a2", "q3", "a3">>,
   <<"q1", "a1", "q2", "a2", "q3", "a3">>}

\* _extract_qr_rows: the (question, answer) pairs of a file
RECURSIVE _extract_qr_rows(_)
_extract_qr_rows(csv) ==
  IF csv = Missing \/ Len(csv) < 2 THEN <<>>
  ELSE <<[q |-> csv[1], a |-> csv[2]]>> \o _extract_qr_rows(SubSeq(csv, 3, Len(csv)))

\* RAG_INDEX, the rows load_rag_csv has still to append (loading: it is
\* running), the index before the reload, the file being loaded and the index
\* the last retrieval went through
Rag(index, loading, pending, previous, csv, seen) ==
  [index |-> index, loading |-> loading, pending |-> pending, previous |-> previous,
   csv |-> csv, seen |-> seen]

\* the file load_rag_csv() finds when the service starts
StartupCsv == <<"q1", "a1", "q2", "a2">>

Init ==
  /\ store = <<>>
  /\ req = Request(FALSE, None, <<>>, <<>>, {}, FALSE)
  /\ state = NoState
  /\ resp = ChatResponse(<<"">>, None, "fr", NoIntent, <<>>, FALSE, <<>>)
  /\ flight = NoFlight(<<>>)
  /\ rag = Rag(_extract_qr_rows(StartupCsv), FALSE, <<>>, <<>>, StartupCsv, <<>>)
  /\ turns = 0

\* sid = session_id or str(uuid.uuid4())
SidOf(session_id, fresh) == IF session_id # None THEN session_id ELSE fresh

\* ChatMalformed with a slip: the entry of the supplied id is dropped
ChatMalformed_PopsEntry(session_id, fresh, language, files) ==
  /\ req' = Request(FALSE, session_id, <<>>, language, files, FALSE)
  /\ resp' = ChatResponse(<<"invalid_format">>, SidOf(session_id, fresh),
                          "fr", NoIntent, <<>>, FALSE, <<>>)
  /\ state' = NoState
  /\ store' = Pop(store, SidOf(session_id, fresh))

\* json.loads / ChatRequest raised: the fixed reply, the store is not read
ChatMalformed(session_id, fresh, language, files) ==
  /\ req' = Request(FALSE, session_id, <<>>, language, files, FALSE)
  /\ resp' = ChatResponse(<<"invalid_format">>, SidOf(session_id, fresh),
                          "fr", NoIntent, <<>>, FALSE, <<>>)
  /\ state' = NoState
  /\ UNCHANGED store

\* what the retriever and the generative model give to an open question: the
\* retriever is asked only about a non-empty text
QaOutcomes(content) ==
  IF \A i \in 1..Len(content) : IsSpace(content[i]) THEN {"llm_reply", "llm_error"}
  ELSE {"rag_answer", "llm_reply", "llm_error"}

\* the response sent for the outcome of a turn and the store it leaves
Respond(out, content) ==
  /\ store' = out.store
  /\ resp' \in IF out.resp.reply = <<"open_question">>
               THEN {[out.resp EXCEPT !.reply = <<qa>>] : qa \in QaOutcomes(content)}
               ELSE {out.resp}

\* one /chat turn with a parseable message batch
Chat(session_id, fresh, content, language, files, io_fail, llm) ==
  /\ req' = Request(TRUE, session_id, content, language, files, io_fail)
  /\ state' = Get(store, SidOf(session_id, fresh))
  /\ Respond(chat(store, SidOf(session_id, fresh), content, language, files, io_fail, llm),
             content)

\* the ids uuid4() can give to a request: one that no session has, looked at
\* only when the request carries no id
FreshIds(session_id) == IF session_id = None THEN Uuids \ DOMAIN store ELSE Uuids

\* a malformed turn of a client that sends an id of ids
MalformedTurn(ids, hints) ==
  \E session_id \in ids : \E fresh \in FreshIds(session_id), language \in hints,
     up \in Uploads :
    ChatMalformed(session_id, fresh, language, up[1]) /\ UNCHANGED <<flight, rag, turns>>

\* a turn of a client that sends an id of ids, a text of contents and a hint of hints
ChatTurn(ids, contents, hints, llms) ==
  \E session_id \in ids : \E fresh \in FreshIds(session_id), language \in hints,
     up \in Uploads, content \in contents, llm \in llms :
    Chat(session_id, fresh, content, language, up[1], up[2], llm)
      /\ UNCHANGED <<flight, rag, turns>>

\* a turn of a client that uploads no file
TextTurn(ids, contents, hints, llms) ==
  \E session_id \in ids : \E fresh \in FreshIds(session_id), language \in hints,
     content \in contents, llm \in llms :
    Chat(session_id, fresh, content, language, {}, FALSE, llm)
      /\ UNCHANGED <<flight, rag, turns>>

Next ==
  \/ MalformedTurn(SessionIds, LanguageHints)
  \/ ChatTurn(SessionIds, Utterances, LanguageHints, LlmAnswers)

Spec == Init /\ [][Next]_vars


\* the same service, with clients that go through a collection step by step
NextCollect ==
  \/ MalformedTurn(SessionIds, LanguageHints)
  \/ ChatTurn(SessionIds, CollectUtterances, LanguageHints, LlmAnswers)

SpecCollect == Init /\ [][NextCollect]_vars

\* the same service, with clients that write in the three languages, send
\* language hints, and with the language-identifier completion switched on
NextClassify ==
  \/ MalformedTurn(SessionIds, ClassifyHints)
  \/ TextTurn(SessionIds, ClassifyUtterances, ClassifyHints, ClassifyLlmAnswers)

SpecClassify == Init /\ [][NextClassify]_vars

\* the same service, with clients that correct their recap
NextEdit ==
  \/ MalformedTurn(SessionIds, LanguageHints)
  \/ ChatTurn(SessionIds, EditUtterances, LanguageHints, LlmAnswers)

SpecEdit == Init /\ [][NextEdit]_vars

\* the session ids of several clients; None: the request carries no id
PairIds == {"s1", "s2", None}

\* the same service with several sessions at a time
NextPair ==
  \/ MalformedTurn(PairIds, LanguageHints)
  \/ ChatTurn(PairIds, PairUtterances, LanguageHints, LlmAnswers)

SpecPair == Init /\ [][NextPair]_vars

\* what the other client writes: it opens its session and cancels it
BesideUtterances == {<<"r", "e", "t", "o", "u", "r">>, <<"n", "o", "n">>}

\* the same service with a client that goes through every stage while the
\* session of another client is open
NextBeside ==
  \/ MalformedTurn({"s1", "s2"}, LanguageHints)
  \/ ChatTurn({"s1"}, Utterances, LanguageHints, LlmAnswers)
  \/ TextTurn({"s2"}, BesideUtterances, LanguageHints, LlmAnswers)

SpecBeside == Init /\ [][NextBeside]_vars

\* what a client who cooperates writes: to open a rent or a renewal, and to
\* answer the prompts
ProgressOpenings == {<<"J", "e", " ", "v", "e", "u", "x", " ", "l", "o", "u", "e", "r", " ", "u", "n", " ", "t", "i", "r", "e", "-", "l", "a", "i", "t">>, <<"p", "r", "o", "l", "o", "n", "g", "e", "r", " ", "l", "e", " ", "r", "e", "t", "o", "u", "r">>}
ProgressAnswers ==
  {<<"D", "u", "p", "o", "n", "t", ",", " ", "M", "a", "r", "i", "e">>, <<"2", "2", "/", "0", "1", "/", "2", "0", "2", "6">>, <<"2", "2", "/", "0", "1", "/", "2", "0", "2", "6", " ", "2", "9", "/", "0", "1", "/", "2", "0", "2", "6">>, <<"7", "5", "0", "0", "1">>,
   <<"D", "u", "p", "o", "n", "t", " ", "M", "a", "r", "i", "e", " ", "2", "2", "/", "0", "1", "/", "2", "0", "2", "6", " ", "2", "9", "/", "0", "1", "/", "2", "0", "2", "6", " ", "7", "5", "0", "0", "1">>}

\* the id of the client who cooperates
ProgressSession == "s1"

\* the collection turns counted, above the four the slots call for
MaxTurns == 5

\* what the extractor of slot f finds in the utterance read as p
ValueFor(f, p) ==
  IF f = "name" THEN p.name
  ELSE IF f \in {"start_date", "end_date"} THEN p.dates
  ELSE p.postal

\* the utterance read as p holds a value for the first empty slot of details
Answers(details, p) ==
  /\ MissingOrder(details) # <<>>
  /\ ValueFor(MissingOrder(details)[1], p) # <<>>

\* the utterance read as p fills the last empty scalar slot of details
FillsLast(details, p) ==
  MissingOrder(FillNext(details, MissingOrder(details), p)) = <<>>

\* the entry of the client, and the stage it is in
ProgressEntry == Get(store, ProgressSession)

\* the client opens a rent or a renewal
Opens(content) ==
  /\ ProgressEntry = NoState
  /\ content \in ProgressOpenings

\* the client affirms the confirmation question
Affirms(content) ==
  /\ ProgressEntry.stage = "asked_confirm"
  /\ content = <<"o", "u", "i">>

\* the client answers the prompt with a value for the slot asked for, and sends
\* both files with the answer that fills the last slot
AnswersPrompt(content, up) ==
  /\ ProgressEntry.stage = "collect_details"
  /\ ~ProgressEntry.edit
  /\ turns < MaxTurns
  /\ content \in ProgressAnswers
  /\ ~GuardFires(Parsed[content])
  /\ Answers(ProgressEntry.details, Parsed[content])
  /\ FillsLast(ProgressEntry.details, Parsed[content])
       => up = <<{"prescription", "insurance"}, FALSE>>

\* the client confirms the recap in words that name the order
Confirms(content, up) ==
  /\ ProgressEntry.stage = "confirm_summary"
  /\ content = <<"o", "u", "i", " ", "l", "o", "c", "a", "t", "i", "o", "n">>
  /\ up = <<{}, FALSE>>

\* the texts of the client
ProgressTexts == ProgressOpenings \cup ProgressAnswers \cup {<<"o", "u", "i">>, <<"o", "u", "i", " ", "l", "o", "c", "a", "t", "i", "o", "n">>}

\* one turn of the client: turns counts the answers since the collection began
ProgressTurn ==
  \E content \in ProgressTexts, up \in Uploads :
    /\ \/ Opens(content)
       \/ Affirms(content)
       \/ AnswersPrompt(content, up)
       \/ Confirms(content, up)
    /\ Chat(ProgressSession, ProgressSession, content, <<>>, up[1], up[2], <<>>)
    /\ turns' = IF ProgressEntry.stage = "collect_details" THEN turns + 1 ELSE 0
    /\ UNCHANGED <<flight, rag>>

NextProgress == ProgressTurn

\* the client goes on as long as the service answers
SpecProgress == Init /\ [][NextProgress]_vars /\ WF_vars(ProgressTurn)

----------------------------------------------------------------------------
(* Two /chat requests of one session on the event loop.  A coroutine runs    *)
(* without interruption up to an await; the awaits of chat() are the reads   *)
(* of the two uploaded files, before the entry of the session is read.      *)

\* the session both requests belong to
FlightSession == "s1"

\* contents of the latest user message of the requests in flight
FlightUtterances ==
  {<<"J", "e", " ", "v", "e", "u", "x", " ", "l", "o", "u", "e", "r", " ", "u", "n", " ", "t", "i", "r", "e", "-", "l", "a", "i", "t">>,
   <<"o", "u", "i">>,
   <<"D", "u", "p", "o", "n", "t", ",", " ", "M", "a", "r", "i", "e">>,
   <<"2", "2", "/", "0", "1", "/", "2", "0", "2", "6", " ", "2", "9", "/", "0", "1", "/", "2", "0", "2", "6">>,
   <<"7", "5", "0", "0", "1">>}

\* their uploads: none, one file, both files, both files with a failed write
FlightUploads ==
  {<<{}, FALSE>>, <<{"prescription"}, FALSE>>,
   <<{"prescription", "insurance"}, FALSE>>, <<{"prescription", "insurance"}, TRUE>>}

\* EntryRead with a slip: the entry is read before the files are awaited
EntryRead_BeforeAwait(arrived, st, sid) == Get(arrived, sid)

\* state = SESSION_STATE.get(sid, {}), after the awaits: arrived is the store as
\* it was when the coroutine was called, st as it is now
EntryRead(arrived, st, sid) == Get(st, sid)

\* the part of chat() after the last await, run without interruption
Handle(co, lang) ==
  /\ req' = Request(TRUE, FlightSession, co.content, co.language, co.files, co.io_fail)
  /\ state' = EntryRead(co.arrived, store, FlightSession)
  /\ Respond(Dispatch(store, FlightSession, EntryRead(co.arrived, store, FlightSession),
                      Parsed[strip(co.content)], lang,
                      SaveFiles(FlightSession, co.files, co.io_fail)),
             co.content)

Began(c, co) ==
  [base |-> IF \A d \in Coroutines : flight.co[d].pc = "idle" THEN store ELSE flight.base,
   co |-> [flight.co EXCEPT ![c] = co]]

\* a request without files: the coroutine runs to its return at once
Run(c, content, language, llm) ==
  /\ flight.co[c].pc = "idle"
  /\ flight' = Began(c, Coroutine("done", content, language, {}, FALSE, store))
  /\ Handle(Coroutine("done", content, language, {}, FALSE, store),
            ChooseLang(language, Parsed[strip(content)], llm))
  /\ UNCHANGED <<rag, turns>>

\* a request with files: the coroutine runs up to the read of the first file
Suspend(c, content, language, files, io_fail) ==
  /\ flight.co[c].pc = "idle"
  /\ files # {}
  /\ flight' = Began(c, Coroutine(IF "prescription" \in files THEN "prescription"
                                  ELSE "insurance",
                                  content, language, files, io_fail, store))
  /\ UNCHANGED <<store, req, state, resp, rag, turns>>

\* the first file was read and written: on to the read of the second file
NextRead(c) ==
  /\ flight.co[c].pc = "prescription"
  /\ "insurance" \in flight.co[c].files
  /\ flight' = [flight EXCEPT !.co[c].pc = "insurance"]
  /\ UNCHANGED <<store, req, state, resp, rag, turns>>

\* the last file was read: the coroutine runs to its return
Resume(c, llm) ==
  /\ \/ flight.co[c].pc = "insurance"
     \/ flight.co[c].pc = "prescription" /\ "insurance" \notin flight.co[c].files
  /\ flight' = [flight EXCEPT !.co[c].pc = "done"]
  /\ Handle(flight.co[c],
            ChooseLang(flight.co[c].language, Parsed[strip(flight.co[c].content)], llm))
  /\ UNCHANGED <<rag, turns>>

\* both responses were sent
Settle ==
  /\ \A c \in Coroutines : flight.co[c].pc = "done"
  /\ flight' = NoFlight(store)
  /\ UNCHANGED <<store, req, state, resp, rag, turns>>

RunTurn ==
  \E c \in Coroutines, content \in FlightUtterances, language \in LanguageHints,
     llm \in LlmAnswers :
    Run(c, content, language, llm)

SuspendTurn ==
  \E c \in Coroutines, content \in FlightUtterances, language \in LanguageHints,
     up \in FlightUploads :
    Suspend(c, content, language, up[1], up[2])

NextReadStep == \E c \in Coroutines : NextRead(c)

ResumeStep == \E c \in Coroutines, llm \in LlmAnswers : Resume(c, llm)

NextFlight == RunTurn \/ SuspendTurn \/ NextReadStep \/ ResumeStep \/ Settle

SpecFlight == Init /\ [][NextFlight]_vars

----------------------------------------------------------------------------
(* /rag/reload and the retrievals.  reload_rag() and the handlers that call  *)
(* rag_retrieve() are coroutines of the same event loop and load_rag_csv()   *)
(* holds no await: no retrieval runs between two of its statements.         *)

\* the queries of the retrievals
Queries == {<<>>, <<"t", "i", "r", "e", "-", "l", "a", "i", "t">>}

\* load_rag_csv up to its loop: RAG_INDEX = [], then the rows of the file
LoadBegin(csv) ==
  /\ ~rag.loading
  /\ rag' = Rag(<<>>, _extract_qr_rows(csv) # <<>>, _extract_qr_rows(csv), rag.index,
                csv, rag.seen)
  /\ UNCHANGED <<store, req, state, resp, flight, turns>>

\* RAG_INDEX.append({...}) for the next row; the load ends with the last one
LoadAppend ==
  /\ rag.loading
  /\ rag' = [rag EXCEPT !.index = Append(@, Head(rag.pending)),
                        !.pending = Tail(@),
                        !.loading = Len(rag.pending) > 1]
  /\ UNCHANGED <<store, req, state, resp, flight, turns>>

\* the documents rag_retrieve goes through: none for an empty index or query
rag_retrieve(index, user_query) ==
  IF index = <<>> \/ user_query = <<>> THEN <<>> ELSE index

\* a retrieval, run by the loop when no other coroutine is running
Retrieve(user_query) ==
  /\ ~rag.loading
  /\ rag' = [rag EXCEPT !.seen = rag_retrieve(rag.index, user_query)]
  /\ UNCHANGED <<store, req, state, resp, flight, turns>>

ReloadTurn == \E csv \in CsvFiles : LoadBegin(csv)

RetrieveTurn == \E q \in Queries : Retrieve(q)

NextRag == ReloadTurn \/ LoadAppend \/ RetrieveTurn

SpecRag == Init /\ [][NextRag]_vars
----------------------------------------------------------------------------
(* Properties of the last turn                                              *)

\* the session id the last turn worked on, its text and what was read in it
Sid == resp.session_id
Text == strip(req.content)
Read == Parsed[Text]
Saved == SaveFiles(Sid, req.files, req.io_fail)

\* the last turn got past the parse of the message batch
Handled == req.parseable

\* the last turn fired the intent guard
Guarded == Handled /\ GuardFires(Read)

Stored(s) == s \in DOMAIN store

ScalarsFilled(d) == \A i \in 1..Len(ScalarSlots) : d[ScalarSlots[i]] # <<>>
ScalarsEmpty(d) == \A i \in 1..Len(ScalarSlots) : d[ScalarSlots[i]] = <<>>
SameScalars(d, e) == \A i \in 1..Len(ScalarSlots) : d[ScalarSlots[i]] = e[ScalarSlots[i]]

\* the index in ScalarSlots of the next missing slot, Len(ScalarSlots) + 1 if none
NextIndex(d) ==
  LET empty == {i \in 1..Len(ScalarSlots) : d[ScalarSlots[i]] = <<>>}
  IN IF empty = {} THEN Len(ScalarSlots) + 1
     ELSE CHOOSE i \in empty : \A j \in empty : i <= j

\* C1: every stored session in confirm_summary has the four scalar slots
\* non-empty and, for rent and renew, at least two attachments.
C1_SummaryIsComplete ==
  \A s \in DOMAIN store :
    store[s].stage = "confirm_summary" =>
      /\ store[s].has_details
      /\ ScalarsFilled(store[s].details)
      /\ store[s].intent \in {"rent", "renew"} =>
           Len(store[s].details.attachments) >= MinAttachments

C1_Witness ==
  \E s \in DOMAIN store :
    /\ store[s].stage = "confirm_summary"
    /\ store[s].intent = "rent"
    /\ state.stage = "collect_details"
    /\ resp.confirm

\* C2: an affirmative utterance on a session in confirm_summary removes the
\* session and returns the final success reply, whatever intent is detected.
C2_AffirmativeEndsFlow ==
  (Handled /\ state.stage = "confirm_summary" /\ Read.affirmative) =>
    (~Stored(Sid) /\ resp.reply = <<"success">>)

\* C3: a turn whose detected intent is a flow intent and whose utterance is
\* neither affirmative nor negative leaves exactly {intent, asked_confirm} stored
\* for its id, whatever was stored before.
C3_GuardRestarts ==
  Guarded =>
    /\ Stored(Sid)
    /\ store[Sid] = Entry(Read.intent, "asked_confirm", FALSE, EmptyDetails, FALSE)

C3_Witness ==
  /\ Guarded
  /\ state.stage = "collect_details"
  /\ state.intent = "rent"
  /\ state.details.name # <<>>
  /\ store[Sid].intent = "return"
  /\ store[Sid].stage = "asked_confirm"

\* a text with a two-token name, two dates and a postal code
FullSubmission(p) ==
  /\ p.name # <<>>
  /\ Len(p.dates) >= 2
  /\ p.postal # <<>>

\* the last turn was a full single-message submission with both files on an
\* empty rent or renew collection
FullSubmissionTurn ==
  /\ Handled
  /\ state.stage = "collect_details"
  /\ ~state.edit
  /\ state.intent \in {"rent", "renew"}
  /\ ScalarsEmpty(state.details)
  /\ FullSubmission(Read)
  /\ Len(Saved) = 2

\* C4: a full single-message submission with two files on an empty rent or
\* renew collection reaches confirm_summary in that one turn.
C4_RoundTrip ==
  FullSubmissionTurn => (Stored(Sid) /\ store[Sid].stage = "confirm_summary")

\* the last turn, on a session whose recap held postal code 75001, was a
\* negative response
RejectedRecap ==
  /\ Handled
  /\ state.stage = "confirm_summary"
  /\ state.details.postal_code = <<"7", "5", "0", "0", "1">>
  /\ Read.negative
  /\ ~Read.affirmative

\* C5: from a recap with postal code 75001, a negative response followed by
\* "Code postal: 69001" leaves the session in confirm_summary with postal code
\* 69001 and the other fields as they were.
C5_TargetedCorrection ==
  [][(RejectedRecap /\ req'.parseable /\ req'.session_id = Sid
        /\ req'.content = <<"C", "o", "d", "e", " ", "p", "o", "s", "t", "a", "l", ":", " ", "6", "9", "0", "0", "1">>)
     => /\ Sid \in DOMAIN store'
        /\ store'[Sid].stage = "confirm_summary"
        /\ store'[Sid].details = [state.details EXCEPT !.postal_code = <<"6", "9", "0", "0", "1">>]]_vars

\* the labeled values of the last utterance name a correction
HasCorrection == \E i \in 1..Len(ScalarSlots) : Read.labeled[ScalarSlots[i]] # <<>>

\* C6: on a session in confirm_summary, an utterance neither affirmative nor
\* negative that holds a recognised labeled correction updates the field, keeps
\* the stage and returns confirm=true with the updated summary.
C6_InlineCorrection ==
  (Handled /\ state.stage = "confirm_summary" /\ ~Read.affirmative /\ ~Read.negative
     /\ HasCorrection) =>
    /\ Stored(Sid)
    /\ store[Sid].stage = "confirm_summary"
    /\ store[Sid].details = ApplyAllLabels(state.details, Read.labeled).details
    /\ resp.confirm
    /\ resp.summary = <<store[Sid].details>>

\* C7: an affirmative utterance on a session in asked_confirm leaves
\* {stored intent, collect_details} with all slots and the attachments empty,
\* whatever intent is detected on the utterance.
C7_AffirmativeStartsCollection ==
  (Handled /\ state.stage = "asked_confirm" /\ Read.affirmative) =>
    /\ Stored(Sid)
    /\ store[Sid] = Entry(state.intent, "collect_details", TRUE, EmptyDetails, FALSE)

C7_Witness ==
  /\ Handled
  /\ state.stage = "asked_confirm"
  /\ Read.affirmative
  /\ Read.intent \in FlowIntents
  /\ Read.intent # state.intent
  /\ Saved # <<>>
  /\ store[Sid].stage = "collect_details"

\* C8: a negative, not affirmative utterance on a session in asked_confirm
\* removes the entry and returns the cancelled reply.
C8_NegativeCancels ==
  (Handled /\ state.stage = "asked_confirm" /\ Read.negative /\ ~Read.affirmative) =>
    (~Stored(Sid) /\ resp.reply = <<"cancelled">>)

C8_Witness ==
  /\ Handled
  /\ state.stage = "asked_confirm"
  /\ Read.negative
  /\ ~Read.affirmative
  /\ resp.reply = <<"cancelled">>

\* the last turn went through the slot filling of a collection outside edit mode
CollectTurn ==
  /\ Handled
  /\ state.stage = "collect_details"
  /\ ~state.edit
  /\ ~Guarded

\* C9: a collection turn outside edit mode keeps every slot that was filled
\* and never moves the next missing slot backward.
C9_FilledSlotsKept ==
  CollectTurn =>
    /\ Stored(Sid)
    /\ \A i \in 1..Len(ScalarSlots) :
         state.details[ScalarSlots[i]] # <<>> =>
           store[Sid].details[ScalarSlots[i]] = state.details[ScalarSlots[i]]
    /\ NextIndex(store[Sid].details) >= NextIndex(state.details)

\* a value of a slot already filled was sent again
C9_Witness ==
  /\ CollectTurn
  /\ state.details.name # <<>>
  /\ state.details.start_date # <<>>
  /\ state.details.postal_code = <<>>
  /\ Read.name # <<>>
  /\ Read.dates # <<>>
  /\ store[Sid].stage = "collect_details"

\* what the extractor of slot f reads in the last utterance
Extracted(f) ==
  IF f = "name" THEN Read.name
  ELSE IF f \in {"start_date", "end_date"} THEN
    (IF Read.dates # <<>> THEN Read.dates[1] ELSE <<>>)
  ELSE Read.postal

\* C10: a collection turn outside edit mode parses the utterance with the
\* extractor of the first empty slot only: without a value for that slot no
\* scalar slot is filled, and the only slot filled out of turn is end_date
\* during the start_date step.
C10_OnlyNextSlotParsed ==
  CollectTurn =>
    /\ Stored(Sid)
    /\ \A i \in 1..Len(ScalarSlots) :
         store[Sid].details[ScalarSlots[i]] # state.details[ScalarSlots[i]] =>
           /\ NextIndex(state.details) <= Len(ScalarSlots)
           /\ Extracted(ScalarSlots[NextIndex(state.details)]) # <<>>
           /\ \/ i = NextIndex(state.details)
              \/ (ScalarSlots[i] = "end_date"
                    /\ ScalarSlots[NextIndex(state.details)] = "start_date")

\* a value for a later slot arrived at the name step and was not taken
C10_Witness ==
  /\ CollectTurn
  /\ state.details.name = <<>>
  /\ Read.name = <<>>
  /\ Read.postal # <<>>
  /\ ScalarsEmpty(store[Sid].details)


\* the last turn went through the slot filling at the step of slot f
StepTurn(f) ==
  /\ CollectTurn
  /\ NextIndex(state.details) <= Len(ScalarSlots)
  /\ ScalarSlots[NextIndex(state.details)] = f

\* C11: at the start_date step an utterance with a date sets start_date to the
\* first date found; a second date found goes to an empty end_date in the same
\* turn, which is otherwise left as it was; later dates are ignored.
C11_StartStepTakesTwoDates ==
  (StepTurn("start_date") /\ Read.dates # <<>>) =>
    /\ store[Sid].details.start_date = Read.dates[1]
    /\ store[Sid].details.end_date =
         IF Len(Read.dates) >= 2 /\ state.details.end_date = <<>>
         THEN Read.dates[2] ELSE state.details.end_date
    /\ store[Sid].details.name = state.details.name
    /\ store[Sid].details.postal_code = state.details.postal_code

\* three dates were sent at the start_date step
C11_Witness ==
  /\ StepTurn("start_date")
  /\ Len(Read.dates) = 3
  /\ store[Sid].details.start_date = Read.dates[1]
  /\ store[Sid].details.end_date = Read.dates[2]
  /\ Read.dates[3] # Read.dates[2]
  /\ resp.reply = <<"prompt", "postal_code">>

\* C12: at the end_date step an utterance with one or more dates sets end_date
\* to the last date found and leaves start_date as it was.
C12_EndStepTakesLastDate ==
  (StepTurn("end_date") /\ Read.dates # <<>>) =>
    /\ store[Sid].details.end_date = Read.dates[Len(Read.dates)]
    /\ store[Sid].details.start_date = state.details.start_date

\* several dates were sent at the end_date step
C12_Witness ==
  /\ StepTurn("end_date")
  /\ Len(Read.dates) = 3
  /\ Read.dates[1] # Read.dates[3]
  /\ store[Sid].details.end_date = Read.dates[3]
  /\ store[Sid].details.start_date = state.details.start_date
  /\ state.details.start_date # <<>>

\* C13: on a return session whose confirmation was affirmed, an utterance with
\* an end-of-use word and no issue word gets the end-of-use procedure reply and
\* the session is removed without any slot being collected.
C13_EndOfUseReturn ==
  (Handled /\ ~Guarded /\ state.intent = "return" /\ state.stage = "collect_details"
     /\ Read.end_of_use /\ ~Read.issue) =>
    (~Stored(Sid) /\ resp.reply = <<"end_of_use">>)

\* C14: a return session in collect_details moves to confirm_summary in the
\* turn in which its fourth scalar slot is filled, whatever attachments it holds.
C14_ReturnNeedsNoAttachments ==
  (Handled /\ ~Guarded /\ state.stage = "collect_details" /\ state.intent = "return"
     /\ ~ScalarsFilled(state.details)) =>
    /\ Stored(Sid)
    /\ ScalarsFilled(store[Sid].details) <=> store[Sid].stage = "confirm_summary"
    /\ store[Sid].stage \in {"collect_details", "confirm_summary"}

\* the fourth slot of a return was filled with no attachment stored
C14_Witness ==
  /\ Handled
  /\ state.stage = "collect_details"
  /\ state.intent = "return"
  /\ state.details.postal_code = <<>>
  /\ Stored(Sid)
  /\ store[Sid].details.postal_code # <<>>
  /\ store[Sid].details.attachments = <<>>
  /\ store[Sid].stage = "confirm_summary"
  /\ resp.confirm

\* the last turn was refused for its message batch
Refused == ~req.parseable /\ resp.reply = <<"invalid_format">>

\* C15: a turn whose message batch cannot be parsed returns the fixed error
\* reply with lang fr and leaves the whole store as it was.
C15_MalformedLeavesStore ==
  [][~req'.parseable =>
       /\ store' = store
       /\ resp'.reply = <<"invalid_format">>
       /\ resp'.lang = "fr"
       /\ resp'.intent = NoIntent
       /\ ~resp'.confirm]_vars

\* a malformed turn came for an id whose session waits on its recap
C15_Witness ==
  /\ Refused
  /\ Stored(req.session_id)
  /\ store[req.session_id].stage = "confirm_summary"

\* C16: the session id of the error response is freshly generated: it differs
\* from the id the request supplied.
C16_FreshIdOnError ==
  (Refused /\ req.session_id # None) => resp.session_id # req.session_id

\* the attachments stored for the id of the last turn before and after it
AttachmentsBefore == IF state.has_details THEN state.details.attachments ELSE <<>>
AttachmentsAfter ==
  IF Stored(Sid) /\ store[Sid].has_details THEN store[Sid].details.attachments ELSE <<>>

\* the write of an uploaded file failed in the last turn
FailedUpload == Handled /\ req.io_fail /\ req.files # {}

\* C17: when persisting an uploaded file fails the saved-URL list of the turn
\* is empty, the turn is answered, no attachment is added to the stored ones,
\* and a rent or renew collection with fewer than two stored attachments does
\* not reach confirm_summary in it.
C17_FailedUploadIsNoUpload ==
  FailedUpload =>
    /\ resp.reply # <<"invalid_format">>
    /\ resp.session_id = req.session_id
    /\ (resp.attachments # <<>>) => resp.attachments = AttachmentsBefore
    /\ AttachmentsAfter \in {AttachmentsBefore, <<>>}
    /\ (Stored(Sid) /\ store[Sid].has_details /\ state.has_details /\ ~Guarded
          /\ state.stage = "collect_details")
         => AttachmentsAfter = AttachmentsBefore
    /\ (state.stage = "collect_details" /\ state.intent \in {"rent", "renew"}
          /\ Len(AttachmentsBefore) < MinAttachments)
         => ~(Stored(Sid) /\ store[Sid].stage = "confirm_summary")

\* the write failed in the turn that filled the last slot of a rent
C17_Witness ==
  /\ FailedUpload
  /\ state.stage = "collect_details"
  /\ state.intent = "rent"
  /\ state.details.postal_code = <<>>
  /\ Len(AttachmentsBefore) < MinAttachments
  /\ Stored(Sid)
  /\ ScalarsFilled(store[Sid].details)
  /\ store[Sid].stage = "collect_details"
  /\ resp.reply = <<"prompt", "attachments">>

\* C18: every entry of the store has a flow intent and one of the stages
\* asked_confirm, collect_details, confirm_summary; a finished or cancelled
\* flow leaves no entry.
C18_EntriesAreFlowsInProgress ==
  /\ \A s \in DOMAIN store :
       /\ store[s].intent \in FlowIntents
       /\ store[s].stage \in {"asked_confirm", "collect_details", "confirm_summary"}
  /\ (Handled /\ resp.reply \in {<<"success">>, <<"cancelled">>}) => ~Stored(Sid)

\* an order was confirmed on its recap
C18_Witness ==
  /\ Handled
  /\ state.stage = "confirm_summary"
  /\ resp.reply = <<"success">>
  /\ ~Stored(Sid)

\* both coroutines of the pair have returned
AllDone == \A c \in Coroutines : flight.co[c].pc = "done"

\* the store after the turn of coroutine co, run alone on the store st
RunOn(st, co) ==
  chat(st, FlightSession, co.content, co.language, co.files, co.io_fail,
       CHOOSE llm \in LlmAnswers : TRUE).store

\* the store after the turns of c and then d, one after the other, from the
\* store the pair started on
Serial(c, d) == RunOn(RunOn(flight.base, flight.co[c]), flight.co[d])

\* C19: whatever the interleaving of two requests of one session, the entry
\* they leave is the one that running their turns one after the other, in one
\* of the two orders, leaves: no update to stage or details is lost.
C19_Serializable ==
  AllDone => \E c, d \in Coroutines : c # d /\ store = Serial(c, d)

\* c was called first and waited on its files while d ran and changed the
\* entry: c read the changed entry and the result is that of d then c only
C19_Witness ==
  /\ AllDone
  /\ \E c, d \in Coroutines :
       /\ c # d
       /\ flight.co[c].files # {}
       /\ flight.co[c].arrived = flight.base
       /\ flight.co[d].arrived = flight.base
       /\ flight.co[c].content # flight.co[d].content
       /\ req.content = flight.co[c].content
       /\ req.files = flight.co[c].files
       /\ state # Get(flight.co[c].arrived, FlightSession)
       /\ store = Serial(d, c)
       /\ store # Serial(c, d)

\* C20: the index bound to RAG_INDEX is at every moment the complete index of
\* before the reload or the complete index of the file being loaded, never an
\* empty or partly built one, and a retrieval goes through a complete index.
C20_IndexSwappedAtomically ==
  /\ rag.index \in {rag.previous, _extract_qr_rows(rag.csv)}
  /\ rag.seen # <<>> => \E csv \in CsvFiles : rag.seen = _extract_qr_rows(csv)

\* a turn was answered
Answered == Handled \/ Refused

\* the code each hint of the clients stands for; the hints not listed stand for none
HintCodes == {<<<<"E", "N">>, "en">>, <<<<"a", "r", "a", "b", "e">>, "ar">>}

\* the language a hint asks for: its code, the default for a hint that has none
ExpectedOfHint(h) ==
  IF \E hc \in HintCodes : hc[1] = h
  THEN (CHOOSE hc \in HintCodes : hc[1] = h)[2]
  ELSE "fr"

\* C21, as stated: the lang of every response is fr, en or ar; with a hint it
\* is the code of a recognised hint and fr for any other hint.
C21_HintDecidesLang ==
  /\ resp.lang \in Langs
  /\ (Answered /\ req.language # <<>>) => resp.lang = ExpectedOfHint(req.language)

\* C21, amended: the lang of every response is fr, en or ar; on a turn whose
\* message batch parses, a hint gives the code it stands for and fr when it
\* stands for none; the error reply of a malformed turn has lang fr whatever
\* the hint.
C21_HintDecidesParsedTurn ==
  /\ resp.lang \in Langs
  /\ (Handled /\ req.language # <<>>) => resp.lang = ExpectedOfHint(req.language)
  /\ Refused => resp.lang = "fr"

\* an English text came with a hint the service does not know
C21_Witness ==
  /\ Handled
  /\ req.language = <<"d", "e">>
  /\ Read.quick = "en"
  /\ resp.lang = "fr"

\* the last utterance holds an Arabic letter, a French accented letter
HasArabic == \E i \in 1..Len(Text) : IsArabic(Text[i])
HasFrenchAccent == \E i \in 1..Len(Text) : lower(Text)[i] \in FrenchAccents

\* C22, as stated: an utterance with a character of the Arabic range always
\* gets the language ar.
C22_ArabicIsAlwaysAr ==
  (Handled /\ HasArabic) => resp.lang = "ar"

\* C22, amended: on a turn that carries no language hint, an utterance with a
\* character of the Arabic range gets the language ar, whatever keywords of
\* other languages it holds and whatever the language identifier answers.
C22_ArabicWithoutHint ==
  (Handled /\ HasArabic /\ req.language = <<>>) => resp.lang = "ar"

\* an Arabic greeting came with several English keywords and no hint
C22_Witness ==
  /\ Handled
  /\ HasArabic
  /\ req.language = <<>>
  /\ Hits(lower(Text), EnglishKeywords) >= 2
  /\ Contains(lower(Text), <<"r", "e", "n", "t">>)
  /\ resp.lang = "ar"

\* C23: without hint the language follows script and alphabet cues, then
\* strong phrase cues, then keyword counts: Arabic letters give ar, else a
\* French accented letter gives fr also beside a strong English phrase, else a
\* strong English phrase gives en.
C23_ScriptBeforePhrases ==
  (Handled /\ req.language = <<>>) =>
    /\ HasArabic => resp.lang = "ar"
    /\ (~HasArabic /\ HasFrenchAccent) => resp.lang = "fr"
    /\ (~HasArabic /\ ~HasFrenchAccent /\ ContainsAny(lower(Text), StrongEnglish))
         => resp.lang = "en"

\* the last turn went through the corrections of edit mode
EditTurn ==
  /\ Handled
  /\ ~Guarded
  /\ state.stage = "collect_details"
  /\ state.edit

\* the scalar slots the last turn changed
ChangedSlots ==
  {i \in 1..Len(ScalarSlots) :
     Stored(Sid) /\ store[Sid].details[ScalarSlots[i]] # state.details[ScalarSlots[i]]}

\* C24: in edit mode a turn changes at most one of the four scalar slots.
C24_OneFieldPerTurn ==
  EditTurn => Cardinality(ChangedSlots) <= 1

\* C25: in edit mode a turn whose utterance holds no labeled value that parses
\* leaves the four scalar slots as they were, stays in collect_details with
\* edit set, and is answered by the prompt that asks which field to correct.
C25_NoMatchKeepsEditMode ==
  (EditTurn /\ ~HasCorrection) =>
    /\ Stored(Sid)
    /\ SameScalars(store[Sid].details, state.details)
    /\ store[Sid].stage = "collect_details"
    /\ store[Sid].edit
    /\ store[Sid].intent = state.intent
    /\ resp.reply \in {<<"which_field">>, <<"field_not_identified">>}
    /\ ~resp.confirm

\* a value was sent without its label
C25_Witness ==
  /\ EditTurn
  /\ ~HasCorrection
  /\ Read.postal # <<>>
  /\ Read.postal # state.details.postal_code
  /\ resp.reply = <<"field_not_identified">>
  /\ store[Sid].edit

\* the replies of the open question/answer path
QaReplies == {<<"rag_answer">>, <<"llm_reply">>, <<"llm_error">>}

\* C26: a turn for an id without stored session whose detected intent is other
\* leaves the whole store as it was and is answered by the retriever or the
\* generative responder (by its apology when the responder fails).
C26_OtherIntentLeavesStore ==
  [][(req'.parseable /\ resp'.session_id \notin DOMAIN store
        /\ Parsed[strip(req'.content)].intent = "other")
     => /\ store' = store
        /\ resp'.reply \in QaReplies
        /\ resp'.intent = NoIntent]_vars

\* a bare "oui" came for an id without session while another session was open
C26_Witness ==
  /\ Handled
  /\ state = NoState
  /\ Read.intent = "other"
  /\ Read.affirmative
  /\ ~Stored(Sid)
  /\ store # <<>>
  /\ resp.reply \in QaReplies

\* C27: on a session in confirm_summary, an utterance neither affirmative nor
\* negative, without labeled correction and of intent other leaves the entry
\* as it was.
C27_RecapUnchanged ==
  (Handled /\ state.stage = "confirm_summary" /\ ~Read.affirmative /\ ~Read.negative
     /\ ~HasCorrection /\ Read.intent = "other") =>
    /\ Stored(Sid)
    /\ store[Sid] = state

\* a postal code without label came on a recap
C27_Witness ==
  /\ Handled
  /\ state.stage = "confirm_summary"
  /\ ~Read.affirmative
  /\ ~Read.negative
  /\ ~HasCorrection
  /\ Read.intent = "other"
  /\ Read.postal # <<>>
  /\ Read.postal # state.details.postal_code
  /\ resp.reply \in QaReplies
  /\ store[Sid] = state

\* the last turn sent "Code postal: 69001" without files to a session in edit
\* mode whose slots were filled and whose attachments sufficed
PostalCorrection ==
  /\ EditTurn
  /\ ScalarsFilled(state.details)
  /\ state.intent \in {"rent", "renew"} =>
       Len(state.details.attachments) >= MinAttachments
  /\ req.files = {}
  /\ Text = <<"C", "o", "d", "e", " ", "p", "o", "s", "t", "a", "l", ":", " ", "6", "9", "0", "0", "1">>

\* C28: that turn sets postal_code to the digits, leaves the other slots and
\* the attachments, clears the edit flag, and ends in confirm_summary with a
\* response that carries confirm=true and the corrected summary.
C28_CorrectionReturnsToRecap ==
  PostalCorrection =>
    /\ Stored(Sid)
    /\ store[Sid] = Entry(state.intent, "confirm_summary", TRUE,
                          [state.details EXCEPT !.postal_code = <<"6", "9", "0", "0", "1">>], FALSE)
    /\ resp.confirm
    /\ resp.summary = <<store[Sid].details>>

\* the postal code of a rent with its two files was corrected
C28_Witness ==
  /\ PostalCorrection
  /\ state.intent = "rent"
  /\ state.details.postal_code = <<"7", "5", "0", "0", "1">>
  /\ store[Sid].details.postal_code = <<"6", "9", "0", "0", "1">>
  /\ store[Sid].stage = "confirm_summary"

\* C29: no utterance is both affirmative and negative.
C29_TriState ==
  Handled => ~(Read.affirmative /\ Read.negative)

\* the keywords found in the last utterance
ShorthandFailure ==
  ContainsAny(lower(Text), ShorthandWords) /\ ContainsAny(lower(Text), FailureWords)
HasRentWord == ContainsAny(lower(Text), RentWords)
HasRenewWord == ContainsAny(lower(Text), RenewWords)
HasReturnWord == ContainsAny(lower(Text), ReturnWords)

\* the last turn classified its utterance as intent i: on an id without session
\* and an utterance neither affirmative nor negative, a flow intent opens the
\* session at asked_confirm and asks to confirm it, other opens none
Classified(i) ==
  /\ Read.intent = i
  /\ (state = NoState /\ ~Read.affirmative /\ ~Read.negative) =>
       IF i = "other"
       THEN ~Stored(Sid) /\ resp.reply \in QaReplies
       ELSE /\ Stored(Sid)
            /\ store[Sid] = Entry(i, "asked_confirm", FALSE, EmptyDetails, FALSE)
            /\ resp.reply = <<"ask_confirm", i>>

\* C30: the intent is that of the first match in the order shorthand with a
\* failure phrase (return), rent keyword, renew keyword, return keyword, else
\* other; so a text with a rent keyword and a return keyword, without the
\* shorthand, is a rent.
C30_FirstMatchOrder ==
  Handled =>
    /\ ShorthandFailure => Classified("return")
    /\ (~ShorthandFailure /\ HasRentWord) => Classified("rent")
    /\ (~ShorthandFailure /\ ~HasRentWord /\ HasRenewWord) => Classified("renew")
    /\ (~ShorthandFailure /\ ~HasRentWord /\ ~HasRenewWord /\ HasReturnWord)
         => Classified("return")
    /\ (~ShorthandFailure /\ ~HasRentWord /\ ~HasRenewWord /\ ~HasReturnWord)
         => Classified("other")

\* a text with a rent keyword and a return keyword started a rent
C30_Witness ==
  /\ Guarded
  /\ state = NoState
  /\ HasRentWord
  /\ HasReturnWord
  /\ ~ShorthandFailure
  /\ store[Sid].intent = "rent"
  /\ resp.reply = <<"ask_confirm", "rent">>

\* the last turn came for an id without session with a flow intent in an
\* utterance that is affirmative or negative
AnswerWithoutQuestion ==
  /\ Handled
  /\ state = NoState
  /\ Read.intent \in FlowIntents
  /\ Read.affirmative \/ Read.negative

\* C31: for an id without session, a turn with a flow intent whose utterance is
\* affirmative or negative stores the session at asked_confirm with that
\* intent and asks to confirm it; it starts no collection and cancels nothing.
C31_AnswerWithoutQuestionAsks ==
  AnswerWithoutQuestion =>
    /\ Stored(Sid)
    /\ store[Sid] = Entry(Read.intent, "asked_confirm", FALSE, EmptyDetails, FALSE)
    /\ resp.reply = <<"ask_confirm", Read.intent>>
    /\ resp.intent = NoIntent
    /\ ~resp.confirm

\* "oui location" came first
C31_Witness ==
  /\ AnswerWithoutQuestion
  /\ Read.affirmative
  /\ Read.intent = "rent"
  /\ store[Sid].stage = "asked_confirm"
  /\ resp.reply = <<"ask_confirm", "rent">>

\* the last turn went through the collection block, in edit mode or not, and
\* did not reach the recap
OpenCollection ==
  /\ Handled
  /\ ~Guarded
  /\ state.stage = "collect_details"
  /\ Stored(Sid)
  /\ store[Sid].stage = "collect_details"

\* the reply is the prompt of the first empty scalar slot, or the attachments
\* prompt when no scalar slot is empty and a rent or renew lacks files
PromptsNextSlot ==
  /\ NextIndex(store[Sid].details) <= Len(ScalarSlots) =>
       resp.reply = <<"prompt", ScalarSlots[NextIndex(store[Sid].details)]>>
  /\ (/\ NextIndex(store[Sid].details) > Len(ScalarSlots)
      /\ store[Sid].intent \in {"rent", "renew"}
      /\ Len(store[Sid].details.attachments) < MinAttachments) =>
       resp.reply = <<"prompt", "attachments">>

\* C32, as stated: after every collect_details turn that does not reach the
\* recap the reply prompts the first empty scalar slot, or the attachments when
\* the four are filled and a rent or renew holds fewer than two.
C32_PromptFollowsSlots ==
  OpenCollection => PromptsNextSlot

\* C32, amended: the same for the collect_details turns outside edit mode and
\* for the edit-mode turns with a recognised labeled correction; an edit-mode
\* turn without one is answered by the field-disambiguation prompt.
C32_PromptFollowsSlotsOutsideEdit ==
  /\ (OpenCollection /\ ~(state.edit /\ ~HasCorrection)) => PromptsNextSlot
  /\ (OpenCollection /\ state.edit /\ ~HasCorrection) =>
       resp.reply \in {<<"which_field">>, <<"field_not_identified">>}

\* the postal code completed the slots of a rent that holds one file
C32_Witness ==
  /\ OpenCollection
  /\ ~state.edit
  /\ state.details.postal_code = <<>>
  /\ ScalarsFilled(store[Sid].details)
  /\ store[Sid].intent = "rent"
  /\ Len(store[Sid].details.attachments) = 1
  /\ resp.reply = <<"prompt", "attachments">>

\* the last turn moved its session from confirm_summary to collect_details
RecapReopened ==
  /\ Handled
  /\ state.stage = "confirm_summary"
  /\ Stored(Sid)
  /\ store[Sid].stage = "collect_details"

\* C33: every turn that moves a session from confirm_summary to
\* collect_details sets edit and keeps the details and the intent of the recap.
C33_ReopenedRecapIsEdit ==
  RecapReopened =>
    /\ store[Sid].edit
    /\ store[Sid].details = state.details
    /\ store[Sid].intent = state.intent

\* the recap of a rent was refused in a text that names a return
C33_Witness ==
  /\ RecapReopened
  /\ state.intent = "rent"
  /\ Read.intent = "return"
  /\ Read.negative
  /\ store[Sid].edit
  /\ Len(store[Sid].details.attachments) = 2

\* the last turn went through the collection block
CollectionBlock ==
  /\ Handled
  /\ ~Guarded
  /\ state.stage = "collect_details"

\* C34: in collect_details the attachments stored after a turn are the URLs
\* saved for that turn when there are any (at most two) and the attachments
\* stored before otherwise; so a file sent alone after another file sent alone
\* leaves one attachment.
C34_AttachmentsReplaced ==
  CollectionBlock =>
    /\ Stored(Sid)
    /\ Len(Saved) <= 2
    /\ Saved # <<>> => store[Sid].details.attachments = Saved
    /\ Saved = <<>> => store[Sid].details.attachments = state.details.attachments

\* the second file of a rent came alone after the first
C34_Witness ==
  /\ CollectionBlock
  /\ state.intent = "rent"
  /\ state.details.attachments = <<Url(Sid, "prescription")>>
  /\ Saved = <<Url(Sid, "insurance")>>
  /\ store[Sid].details.attachments = <<Url(Sid, "insurance")>>
  /\ ScalarsFilled(store[Sid].details)
  /\ store[Sid].stage = "collect_details"

\* the last turn affirmed the confirmation question
Affirmed ==
  /\ Handled
  /\ ~Guarded
  /\ state.stage = "asked_confirm"
  /\ Read.affirmative

\* C35: the files uploaded on the turn that affirms the confirmation question
\* are echoed in the response and not recorded: the stored attachments are
\* empty after that turn.
C35_AffirmingUploadsNotStored ==
  Affirmed =>
    /\ Stored(Sid)
    /\ store[Sid].stage = "collect_details"
    /\ store[Sid].details.attachments = <<>>
    /\ resp.attachments = Saved

\* both files came with the "oui"
C35_Witness ==
  /\ Affirmed
  /\ Len(Saved) = 2
  /\ resp.attachments = Saved
  /\ store[Sid].details.attachments = <<>>

\* C36: a stored session with the edit flag is in collect_details and has its
\* four scalar slots filled.
C36_EditModeIsFilled ==
  \A s \in DOMAIN store :
    store[s].edit =>
      /\ store[s].stage = "collect_details"
      /\ store[s].has_details
      /\ ScalarsFilled(store[s].details)

\* a correction was asked for and none was found in the answer
C36_Witness ==
  /\ EditTurn
  /\ Text # <<>>
  /\ Stored(Sid)
  /\ store[Sid].edit
  /\ ScalarsFilled(store[Sid].details)

\* every id a client or uuid4() can give
AllIds == (PairIds \ {None}) \cup Uuids

\* C37: a /chat turn changes at most the entry of its own session id: every
\* other id is stored after the turn iff it was before, with the same entry.
C37_SessionIsolation ==
  [][\A s \in AllIds \ {resp'.session_id} :
       /\ s \in DOMAIN store' <=> s \in DOMAIN store
       /\ s \in DOMAIN store => store'[s] = store[s]]_vars

\* an order was confirmed and its session removed while another was open
C37_Witness ==
  /\ Handled
  /\ Sid = "s1"
  /\ state.stage = "confirm_summary"
  /\ resp.reply = <<"success">>
  /\ ~Stored("s1")
  /\ Stored("s2")
  /\ store["s2"].stage = "asked_confirm"

\* C38: a response has confirm=true only if its session is stored in
\* confirm_summary after the turn, and then its summary is the stored details;
\* the response of a turn that removes the session or leaves it in
\* asked_confirm or collect_details has confirm=false and no summary.
C38_ConfirmMeansRecap ==
  /\ resp.confirm =>
       /\ Stored(Sid)
       /\ store[Sid].stage = "confirm_summary"
       /\ resp.summary = <<store[Sid].details>>
  /\ (~Stored(Sid) \/ store[Sid].stage \in {"asked_confirm", "collect_details"}) =>
       /\ ~resp.confirm
       /\ resp.summary = <<>>

\* the recap of a rent was sent
C38_Witness ==
  /\ Handled
  /\ resp.confirm
  /\ state.stage = "collect_details"
  /\ store[Sid].stage = "confirm_summary"
  /\ store[Sid].intent = "rent"
  /\ resp.summary = <<store[Sid].details>>

\* the number of empty scalar slots
EmptyCount(d) == Cardinality({i \in 1..Len(ScalarSlots) : d[ScalarSlots[i]] = <<>>})

\* the last turn, on a rent or renewal in collection outside edit mode, held a
\* value for the slot asked for
AnsweredPrompt ==
  /\ CollectTurn
  /\ state.intent \in {"rent", "renew"}
  /\ NextIndex(state.details) <= Len(ScalarSlots)
  /\ Extracted(ScalarSlots[NextIndex(state.details)]) # <<>>

\* such a turn leaves fewer empty scalar slots than it found
AnswerDecreases ==
  AnsweredPrompt =>
    /\ Stored(Sid)
    /\ EmptyCount(store[Sid].details) < EmptyCount(state.details)

\* the session of the client is collecting, is at its recap
Collecting == ProgressEntry.stage = "collect_details"
AtRecap == ProgressEntry.stage = "confirm_summary"

\* while the collection is open fewer than four answers were given, a slot is
\* still empty, and each answer given has filled a slot
WithinFourTurns ==
  /\ turns <= Len(ScalarSlots)
  /\ Collecting =>
       /\ turns < Len(ScalarSlots)
       /\ EmptyCount(ProgressEntry.details) >= 1
       /\ EmptyCount(ProgressEntry.details) + turns <= Len(ScalarSlots)

\* C39: on a rent or renewal in collection outside edit mode, a turn that does
\* not fire the guard and holds a value for the next missing slot strictly
\* decreases the number of empty scalar slots; a client who answers each prompt
\* so and sends both files with the answer that fills the last slot reaches the
\* recap, after at most four collection turns.
C39_CollectionProgress ==
  /\ [](AnswerDecreases /\ WithinFourTurns)
  /\ Collecting ~> AtRecap

\* the recap of a renewal came with the fourth answer
C39_Witness ==
  /\ AtRecap
  /\ turns = Len(ScalarSlots)
  /\ AnsweredPrompt
  /\ EmptyCount(state.details) = 1
  /\ ProgressEntry.intent = "renew"
  /\ Len(ProgressEntry.details.attachments) = 2
  /\ resp.confirm
====
